---- MODULE Spec2Model ----
(***************************************************************************)
(* Resumable paginated crawl-and-enrich pipeline of the healthcare         *)
(* directory scrapers.                                                     *)
(*                                                                         *)
(* Two implementations of the same crawl are modelled, selected by the     *)
(* variable variant:                                                       *)
(*   "base"  BaseHealthcareScraper.run       (base_scraper.py)             *)
(*   "med"   main() of med-clinic/get-medclinics.py                        *)
(* The disk (progress file, processed-pages log, final output) survives a  *)
(* run; everything else is the memory of one process and is lost when the  *)
(* process ends or is killed.                                              *)
(***************************************************************************)
EXTENDS Integers, Sequences, FiniteSets, TLC

VARIABLES
    variant,          \* which scraper implementation runs
    pc,               \* position of the process in run() / main()
    canton,           \* index of the canton of the outer loop
    page_num,         \* page of the canton being handled
    max_page,         \* result of get_max_page_number for the canton
    index,            \* position of the item loop in extract_items
    extracted_items,  \* records extracted from the current page
    processed_pages,  \* in-memory set loaded from the processed-pages log
    scraped_urls,     \* in-memory set of item URLs
    all_items,        \* records accumulated in memory by this run
    progress_file,    \* <key>_progress.csv: << >> when absent, else the lines
    processed_file,   \* <key>_processed_pages.csv: the lines
    output_file,      \* the final output file: << >> when absent
    runs,             \* number of runs started so far
    kills,            \* number of runs killed so far
    fails,            \* number of failed fetches so far
    fetched,          \* history: listing fetches issued by this run
    detail_fetched,   \* history: items whose detail page this run fetched
    run_failed,       \* history: some fetch of this run failed
    clean_done,       \* history: some run completed without a failed fetch
    killed_mid_page   \* history: some run was killed while handling a page

\* ScraperSession.fetch_page / fetch_page of the stand-alone scripts
VARIABLES
    fetch_impl,       \* which fetch_page is called
    fetch_pc,         \* position of the call in fetch_page
    max_retries,      \* argument max_retries
    retry_delay,      \* argument retry_delay / delay_config['retry_delay']
    attempt,          \* loop variable of "for attempt in range(max_retries)"
    polls,            \* iterations done of "for _ in range(12)"
    fetch_result,     \* what the call returned
    checks,           \* history: results of the connectivity checks before the loop
    fixed_waits,      \* history: sleeps of the fixed delay before the loop
    attempts_made,    \* history: calls of session.get
    http_ok,          \* history: some call of session.get succeeded
    backoff_total,    \* history: seconds slept in exponential backoff
    rechecked         \* history: connectivity was checked since the last attempt

fetch_vars == << fetch_impl, fetch_pc, max_retries, retry_delay, attempt, polls,
                 fetch_result, checks, fixed_waits, attempts_made, http_ok,
                 backoff_total, rechecked >>

\* get_max_page_number called on its own
VARIABLES
    dpc,                 \* position of the call in get_max_page_number
    num_pages,           \* the category's pages 1..num_pages hold items
    first_links,         \* the pagination rendered in argument html
    d_highest_visible,   \* local highest_visible
    d_new_highest,       \* local new_highest
    d_previous_highest,  \* local previous_highest
    d_test_page,         \* local test_page
    returned_max,        \* what the call returned
    probe_log            \* history: the probe fetches issued

discovery_vars == << dpc, num_pages, first_links, d_highest_visible, d_new_highest,
                     d_previous_highest, d_test_page, returned_max, probe_log >>

\* parse_address called on its own
VARIABLES
    apc,              \* position of the call
    address,          \* argument address
    parsed            \* the returned dict

address_vars == << apc, address, parsed >>

\* the state of the calls that are examined on their own
\* _load_processed_pages and _mark_page_processed called on their own; the
\* log is processed_file and the loaded state is processed_pages
VARIABLES
    log_pc,           \* "open" while the log is written, then the outcome of the load
    marked            \* history: the pairs _mark_page_processed was called with

log_vars == << log_pc, marked >>

\* standardize_csv_output(data, scraper_type) called on its own
VARIABLES
    std_pc,           \* "call" before the call, "done" after it
    std_data,         \* data: the list of input records
    scraper_type,     \* the tag passed in
    standardized      \* the list the call returned

std_vars == << std_pc, std_data, scraper_type, standardized >>

\* medicalCenters/urlFetch.py: the pool, worker_thread and curses_dashboard
VARIABLES
    stop_event,       \* the global stop_event is set
    future,           \* per row: the state of its future in future_map
    wt_pc,            \* where worker_thread is
    wt_future,        \* the row of the future as_completed yielded last, 0 for none
    active_count,     \* worker_thread's count of rows written
    csvfile,          \* the rows appended to output_file in this run
    csv_open,         \* csvfile is open
    progress_queue,   \* the messages in progress_queue
    dash_pc,          \* where curses_dashboard / main_curses is
    current_stats,    \* current_stats["processed_this_run"]
    summary           \* the "Processed this run" count final_summary printed

enrich_vars == << stop_event, future, wt_pc, wt_future, active_count, csvfile,
                  csv_open, progress_queue, dash_pc, current_stats, summary >>

\* hospitals/urlFetch.py main and medicalCenters/urlFetch.py main_curses: the
\* runs that enrich the rows of the input file one after the other
VARIABLES
    url_output,       \* the rows of the enrichment output file
    url_main          \* the state of main: script, pc, all_rows, processed_names,
                      \* todo, url, checked, runs

urlfetch_vars == << url_output, url_main >>

\* medicalCenters/urlFetch.py: fetch_company_url in the threads of the pool
VARIABLES
    rate_limit_errors,  \* the global counter
    searchers,          \* per thread: pc, attempt, the counter value it loaded
    failed_attempts     \* history: the search attempts that failed

rate_vars == << rate_limit_errors, searchers, failed_attempts >>

\* groupclinics/groupy.py
VARIABLES
    grp_disk,   \* scraper_state.json, group_practices_progress.csv,
                \* all_group_practices.csv; history: a fetch failed
    grp_main    \* main(): its position and local variables

group_vars == << grp_disk, grp_main >>

\* docs/onedoc_scraper.py
VARIABLES
    doc_disk,   \* scraper_state.json, onedoc_combined.csv, onedoc_complete.csv,
                \* the progress files by their page; history: a fetch failed
    doc_main    \* main(): its position and local variables

docs_vars == << doc_disk, doc_main >>

\* the groups added after the worker pool
more_vars == << urlfetch_vars, rate_vars, group_vars, docs_vars >>

\* the calls added after the first three
later_vars == << log_vars, std_vars, enrich_vars, more_vars >>

call_vars == << fetch_vars, discovery_vars, address_vars, later_vars >>

\* the same without the log
call_vars_but_log ==
    << fetch_vars, discovery_vars, address_vars, std_vars, enrich_vars,
       more_vars >>

crawl_vars == << pc, canton, page_num, max_page, index, extracted_items,
                 processed_pages, scraped_urls, all_items, progress_file,
                 processed_file, output_file, runs, kills, fails, fetched,
                 detail_fetched, run_failed, clean_done, killed_mid_page >>

vars == << variant, crawl_vars, call_vars >>

memory == << canton, page_num, max_page, index, extracted_items,
             processed_pages, scraped_urls, all_items >>

disk == << progress_file, processed_file, output_file >>

---------------------------------------------------------------------------
(* Bounds of the model *)

NumCantons == 2
MaxPages == 2
ItemsPerPage == 2
MaxRuns == 3
MaxKills == 1
MaxFails == 1

---------------------------------------------------------------------------
(* The source directory, unchanged between runs *)

Min(a, b) == IF a < b THEN a ELSE b

Variants == {"base", "med"}

Cantons == 1..NumCantons

\* Odd cantons have MaxPages result pages, even cantons a single one.
NumPages(c) == IF c % 2 = 1 THEN MaxPages ELSE 1

\* The directory-item blocks of a listing page, in document order; a page
\* past the last one is served without items.
PageItems(c, p) ==
    IF p \in 1..NumPages(c)
    THEN [k \in 1..ItemsPerPage |-> << c, p, k >>]
    ELSE << >>

\* every item of the source
AllItems ==
    { << c, p, k >> : c \in Cantons, p \in 1..MaxPages, k \in 1..ItemsPerPage }
        \cap { it \in Cantons \X (1..MaxPages) \X (1..ItemsPerPage) :
                   it[2] <= NumPages(it[1]) }

\* The last block of every first page carries no <a href>.
HasLink(item) == ~(item[2] = 1 /\ item[3] = ItemsPerPage)

\* Highest page number rendered as a link in the pagination control of
\* page p (0: no control): the control links to the following page.
PaginationMax(c, p) ==
    IF NumPages(c) = 1 \/ p > NumPages(c) THEN 0 ELSE Min(p + 1, NumPages(c))

---------------------------------------------------------------------------
(* Item URLs and records *)

EmptyUrl == << 0, 0, 0 >>      \* the string ""
UnknownUrl == << 0, 0, 1 >>    \* the string "Unknown"

\* item_url / practice_url of a directory-item block
ItemUrl(v, item) ==
    IF HasLink(item) THEN item
    ELSE IF v = "base" THEN EmptyUrl ELSE UnknownUrl

\* the value of the phone field before / without the detail page
DefaultPhone(v) == IF v = "base" THEN "" ELSE "Not available"

\* an address outside the directory found on the detail page of an item
ExternalSite(item) == << item[1], item[2], item[3], 1 >>

\* defaults that carry a placeholder instead of the empty phone
NoDetailsPlaceholder(v) ==
    [phone_number |-> "n/a", professions |-> << >>, email |-> "",
     website |-> EmptyUrl]

\* the dict extract_item_details / extract_practice_details starts from and
\* returns when the detail page cannot be fetched
NoDetails(v) ==
    [phone_number |-> DefaultPhone(v), professions |-> << >>, email |-> "",
     website |-> EmptyUrl]

\* the dict they return for a detail page that was fetched
PageDetails(item) ==
    [phone_number |-> "tel", professions |-> << "prof" >>, email |-> "mail",
     website |-> ExternalSite(item)]

\* extract_item_details / extract_practice_details
ExtractItemDetails(v, item, ok) == IF ok THEN PageDetails(item) ELSE NoDetails(v)

\* ", ".join(professions) of at most one profession
JoinProfessions(professions) ==
    IF professions = << >> THEN "" ELSE professions[1]

\* item_data / practice_data
ItemData(v, item, details) ==
    IF v = "base"
    THEN [name |-> item,
          phone |-> details.phone_number,
          email |-> details.email,
          website |-> IF details.website # EmptyUrl THEN details.website
                      ELSE ItemUrl(v, item),
          specialty |-> JoinProfessions(details.professions),
          source_url |-> ItemUrl(v, item)]
    ELSE [name |-> item, url |-> ItemUrl(v, item),
          phone_number |-> details.phone_number]

\* the URL a record was built from
RecordUrl(v, rec) == IF v = "base" THEN rec.source_url ELSE rec.url

\* fieldnames of the progress file
Fieldnames(v) ==
    IF v = "base"
    THEN << "name", "phone", "email", "website", "specialty", "source_url" >>
    ELSE << "name", "phone_number", "url" >>

\* csv.DictWriter.writerow: the values in fieldnames order
WriteRow(names, rec) == [i \in 1..Len(names) |-> rec[names[i]]]

\* csv.DictReader: the first line names the fields of every later line
DictReader(file) ==
    IF file = << >> THEN << >>
    ELSE LET names == file[1]
             keys == { names[i] : i \in 1..Len(names) }
         IN  [j \in 1..(Len(file) - 1) |->
                 [k \in keys |-> file[j + 1][CHOOSE i \in 1..Len(names) : names[i] = k]]]

\* dict.get(key, default)
RowGet(row, key, default) == IF key \in DOMAIN row THEN row[key] ELSE default

Range(s) == { s[i] : i \in 1..Len(s) }

---------------------------------------------------------------------------
(* Loading the progress state *)

\* A field of a log row is the number its text spells, or NotAnInteger when
\* the text is not a numeral ('' after a torn write, 'abc').
NotAnInteger == -1

\* int(text) returns a value
IsIntegerText(field) == field # NotAnInteger

\* "page = int(row[1])" raises ValueError for some row of the file
LoadRaises(file) ==
    \E j \in 1..Len(file) : Len(file[j]) >= 2 /\ ~IsIntegerText(file[j][2])

\* a loader in which a second mark of a pair takes the pair out again
LoadProcessedPagesOddCount(file) ==
    { << file[i][1], file[i][2] >> :
        i \in { j \in 1..Len(file) :
                  /\ Len(file[j]) >= 2
                  /\ Cardinality({ k \in 1..Len(file) : file[k] = file[j] }) % 2 = 1 } }

\* a loader that asks for one column too many and so keeps no line
LoadProcessedPagesNoLine(file) ==
    { << file[i][1], file[i][2] >> : i \in { j \in 1..Len(file) : Len(file[j]) >= 3 } }

\* _load_processed_pages / check_processed_pages: the state that is built
\* when int(row[1]) raises for no row
LoadProcessedPages(file) ==
    { << file[i][1], file[i][2] >> : i \in { j \in 1..Len(file) : Len(file[j]) >= 2 } }

\* _load_scraped_urls / load_already_scraped_practices: both read column 'url'
LoadScrapedUrls(file) ==
    { RowGet(row, "url", EmptyUrl) : row \in Range(DictReader(file)) }

---------------------------------------------------------------------------
(* Page-count discovery.  F is the set of pages whose probe fetch fails;   *)
(* the result names the page count and the pages that were probed.         *)

\* get_max_page_number of base_scraper.py: single-step lookahead
GetMaxPageBase(c, F) ==
    LET highest_visible == PaginationMax(c, 1)
        test_page == highest_visible + 1
    IN  IF highest_visible = 0 THEN [max |-> 1, probes |-> {}]
        ELSE IF test_page \notin F /\ PageItems(c, test_page) # << >>
             THEN [max |-> test_page, probes |-> {test_page}]
             ELSE [max |-> highest_visible, probes |-> {test_page}]

\* "if new_highest - previous_highest < 5"
MinProgress == 5
\* "test_page = new_highest + 10"
LookaheadJump == 10

\* the while True loop of get_max_page_number of get-medclinics.py
RECURSIVE MedProbeLoop(_, _, _, _)
MedProbeLoop(c, new_highest, F, probes) ==
    LET previous_highest == new_highest
        probed == probes \cup {new_highest}
        seen == PaginationMax(c, new_highest)
        test_page == seen + LookaheadJump
    IN  IF new_highest \in F THEN [max |-> previous_highest, probes |-> probed]
        ELSE IF seen = 0 THEN [max |-> new_highest, probes |-> probed]
        ELSE IF seen <= new_highest THEN [max |-> new_highest, probes |-> probed]
        ELSE IF seen - previous_highest < MinProgress
             THEN IF test_page \notin F /\ PageItems(c, test_page) # << >>
                  THEN MedProbeLoop(c, test_page, F, probed \cup {test_page})
                  ELSE MedProbeLoop(c, seen, F, probed \cup {test_page})
             ELSE MedProbeLoop(c, seen, F, probed)

\* get_max_page_number of get-medclinics.py: iterative lookahead
GetMaxPageMed(c, F) ==
    LET highest_visible == PaginationMax(c, 1)
        next_seen == PaginationMax(c, highest_visible)
    IN  IF highest_visible = 0 THEN [max |-> 1, probes |-> {}]
        ELSE IF highest_visible \in F
             THEN [max |-> highest_visible, probes |-> {highest_visible}]
        ELSE IF next_seen > highest_visible
             THEN MedProbeLoop(c, next_seen, F, {highest_visible})
             ELSE [max |-> highest_visible, probes |-> {highest_visible}]

GetMaxPage(v, c, F) == IF v = "base" THEN GetMaxPageBase(c, F) ELSE GetMaxPageMed(c, F)

\* the pages a probe can ask for and get a failure that matters
ProbeCandidates == 1..(MaxPages + 1)

---------------------------------------------------------------------------
(* Writing the files *)

\* save_progress with writeheader() outside "if not file_exists"
AppendRecordsAlwaysHeader(v, file, data) ==
    IF data = << >> THEN file
    ELSE file \o << Fieldnames(v) >>
         \o [i \in 1..Len(data) |-> WriteRow(Fieldnames(v), data[i])]

\* only the first record of the batch is written
AppendRecordsFirstOnly(v, file, data) ==
    IF data = << >> THEN file
    ELSE (IF file = << >> THEN << Fieldnames(v) >> ELSE file)
         \o << WriteRow(Fieldnames(v), data[1]) >>

\* save_progress: nothing for an empty batch, the header on the first write
AppendRecords(v, file, data) ==
    IF data = << >> THEN file
    ELSE (IF file = << >> THEN << Fieldnames(v) >> ELSE file)
         \o [i \in 1..Len(data) |-> WriteRow(Fieldnames(v), data[i])]

\* Python's None, as a value of a record field
PyNone == "None"

\* clean_text: "" for an empty text, else stripped, with line breaks and tabs
\* turned into spaces
CleanText(text) ==
    IF text = "" THEN ""
    ELSE CASE text = " Praxis\nB " -> "Praxis B"
           [] OTHER -> text

\* extract_phone on a phone field: the first match of a phone pattern, None
\* when no pattern matches ("tel" stands for a number that matches whole)
ExtractPhone(text) ==
    CASE text = "tel" -> "tel"
      [] text = "Tel 044 123 45 67" -> "044 123 45 67"
      [] OTHER -> PyNone

\* extract_email: the first match of the address pattern, None without one
ExtractEmail(text) ==
    CASE text = "Mail: a@b.ch" -> "a@b.ch"
      [] OTHER -> PyNone

ScraperType == "clinic"

\* standardize_csv_output on one record
StandardizeItem(rec) ==
    [name |-> rec.name, phone |-> ExtractPhone(rec.phone),
     type |-> ScraperType, source_url |-> rec.source_url]

OutputFieldnames(v) ==
    IF v = "base" THEN << "name", "phone", "type", "source_url" >>
    ELSE << "name", "phone_number", "url" >>

\* the final write adds to the file that is there
FinalWriteAppend(v, file, data) ==
    IF data = << >> THEN file
    ELSE file \o
         [i \in 1..Len(data) |->
             WriteRow(OutputFieldnames(v),
                      IF v = "base" THEN StandardizeItem(data[i]) ELSE data[i])]

\* the final write: standardized and written with mode 'w' (base), the raw
\* records written with mode 'w' (med); no write when there are no records
FinalWrite(v, file, data) ==
    IF data = << >> THEN file
    ELSE << OutputFieldnames(v) >> \o
         [i \in 1..Len(data) |->
             WriteRow(OutputFieldnames(v),
                      IF v = "base" THEN StandardizeItem(data[i]) ELSE data[i])]

\* extract_practices_with_progress: keep the records whose URL is new
RECURSIVE FilterNew(_, _, _)
FilterNew(v, practices, seen) ==
    IF practices = << >> THEN [new |-> << >>, seen |-> seen]
    ELSE LET practice == Head(practices)
             url == RecordUrl(v, practice)
         IN  IF url \notin seen
             THEN LET rest == FilterNew(v, Tail(practices), seen \cup {url})
                  IN  [new |-> << practice >> \o rest.new, seen |-> rest.seen]
             ELSE FilterNew(v, Tail(practices), seen)

---------------------------------------------------------------------------
(* Control points *)

Stopped == {"idle", "aborted", "completed", "killed"}
Running == {"overview", "canton", "pages", "extract", "save", "mark"}

\* the page marked before its records are saved
PageStepsMarkFirst == << "mark", "save" >>

\* the statements that follow extract_items for one page, in program order:
\* save_progress(items), then _mark_page_processed(canton, page)
PageSteps == << "save", "mark" >>

\* control moves to the statement after `step`; after the last one the page
\* loop goes on with the following page
AdvanceFrom(step) ==
    LET i == CHOOSE j \in 1..Len(PageSteps) : PageSteps[j] = step
    IN  IF i < Len(PageSteps)
        THEN pc' = PageSteps[i + 1] /\ page_num' = page_num
        ELSE pc' = "pages" /\ page_num' = page_num + 1

\* the first page is taken for unprocessed whatever the log says
FirstPageProcessedNever(c) == FALSE

\* "canton_name in processed_pages and 1 in processed_pages[canton_name]"
FirstPageProcessed(c) == << c, 1 >> \in processed_pages

\* the membership test off by one page
PageIsProcessedOffByOne(c, p) == << c, p + 1 >> \in processed_pages

\* "canton_name in processed_pages and page_num in processed_pages[canton_name]"
PageIsProcessed(c, p) == << c, p >> \in processed_pages

\* "if item_url in self.scraped_urls: continue" (base only: get-medclinics.py
\* filters after the whole page has been extracted)
SkipAlreadyScraped(v, url) == v = "base" /\ url \in scraped_urls

\* "if item_url:" / "if practice_url != 'Unknown':"
WantsDetails(v, url) == IF v = "base" THEN url # EmptyUrl ELSE url # UnknownUrl

ClearMemory ==
    /\ canton' = 0 /\ page_num' = 0 /\ max_page' = 0 /\ index' = 0
    /\ extracted_items' = << >> /\ processed_pages' = {}
    /\ scraped_urls' = {} /\ all_items' = << >>
    /\ fetched' = {} /\ detail_fetched' = {}

Fetch(kind, c, p, ok) == [kind |-> kind, c |-> c, p |-> p, ok |-> ok]

ProbeFetches(c, r, F) == { Fetch("probe", c, p, p \notin F) : p \in r.probes }

---------------------------------------------------------------------------
(* The calls examined on their own: nothing is being called *)

NoValue == "none"

FetchIdle ==
    /\ fetch_impl = NoValue /\ fetch_pc = "idle"
    /\ max_retries = 0 /\ retry_delay = 0 /\ attempt = 0 /\ polls = 0
    /\ fetch_result = NoValue
    /\ checks = << >> /\ fixed_waits = 0 /\ attempts_made = 0
    /\ http_ok = FALSE /\ backoff_total = 0 /\ rechecked = FALSE

DiscoveryIdle ==
    /\ dpc = "idle"
    /\ num_pages = 0 /\ first_links = 0
    /\ d_highest_visible = 0 /\ d_new_highest = 0
    /\ d_previous_highest = 0 /\ d_test_page = 0
    /\ returned_max = 0 /\ probe_log = {}

AddressIdle ==
    /\ apc = "idle" /\ address = << >> /\ parsed = NoValue

LogIdle ==
    /\ log_pc = "idle" /\ marked = {}

StdIdle ==
    /\ std_pc = "idle" /\ std_data = << >>
    /\ scraper_type = "" /\ standardized = << >>

NotPrinted == -1

EnrichIdle ==
    /\ stop_event = FALSE /\ future = << >>
    /\ wt_pc = "idle" /\ wt_future = 0 /\ active_count = 0
    /\ csvfile = << >> /\ csv_open = FALSE
    /\ progress_queue = << >>
    /\ dash_pc = "idle" /\ current_stats = 0 /\ summary = NotPrinted

UrlFetchIdle ==
    /\ url_output = << >>
    /\ url_main = [script |-> "", pc |-> "idle", all_rows |-> << >>,
                   processed_names |-> {}, todo |-> << >>, url |-> "",
                   checked |-> {}, runs |-> 0]

\* the groups of the later calls other than the log, the standardization
\* and the worker pool
RateIdle ==
    /\ rate_limit_errors = 0 /\ searchers = << >> /\ failed_attempts = 0

\* resume_state.get('last_canton', None) without a state file
NoCanton == 0

GroupMainIdle ==
    [pc |-> "idle", all_practices |-> << >>, resume_canton |-> NoCanton,
     resume_page |-> 0, resume_mode |-> FALSE, canton |-> 0, page_num |-> 0,
     runs |-> 0, kills |-> 0]

GroupIdle ==
    /\ grp_disk = [state_exists |-> FALSE, last_canton |-> NoCanton, last_page |-> 0,
                   progress |-> << >>, final |-> << >>, fetch_failed |-> FALSE]
    /\ grp_main = GroupMainIdle

DocMainIdle ==
    [pc |-> "idle", all_doctors |-> << >>, page |-> 0, runs |-> 0, kills |-> 0]

DocsIdle ==
    /\ doc_disk = [state_exists |-> FALSE, next_page |-> 1, combined |-> << >>,
                   complete |-> << >>, progress_files |-> {}, fetch_failed |-> FALSE]
    /\ doc_main = DocMainIdle

MoreIdle == UrlFetchIdle /\ RateIdle /\ GroupIdle /\ DocsIdle

LaterIdle == LogIdle /\ StdIdle /\ EnrichIdle /\ MoreIdle

---------------------------------------------------------------------------
(* Actions *)

\* no run has been started and the files do not exist
CrawlIdle ==
    /\ pc = "idle"
    /\ canton = 0 /\ page_num = 0 /\ max_page = 0 /\ index = 0
    /\ extracted_items = << >> /\ processed_pages = {}
    /\ scraped_urls = {} /\ all_items = << >>
    /\ progress_file = << >> /\ processed_file = << >> /\ output_file = << >>
    /\ runs = 0 /\ kills = 0 /\ fails = 0
    /\ fetched = {} /\ detail_fetched = {}
    /\ run_failed = FALSE /\ clean_done = FALSE /\ killed_mid_page = FALSE

Init ==
    /\ variant \in Variants
    /\ CrawlIdle
    /\ FetchIdle
    /\ DiscoveryIdle
    /\ AddressIdle
    /\ LaterIdle

\* a process starts: __init__ loads the progress state, run() begins
StartRun ==
    /\ pc \in Stopped
    /\ runs < MaxRuns
    /\ runs' = runs + 1
    /\ processed_pages' = LoadProcessedPages(processed_file)
    /\ scraped_urls' = LoadScrapedUrls(progress_file)
    /\ all_items' = << >>
    /\ canton' = 0 /\ page_num' = 0 /\ max_page' = 0 /\ index' = 0
    /\ extracted_items' = << >>
    /\ fetched' = {} /\ detail_fetched' = {}
    /\ run_failed' = FALSE
    /\ pc' = "overview"
    /\ UNCHANGED << variant, call_vars, disk, kills, fails, clean_done, killed_mid_page >>

\* the run goes on with the cantons although the overview page is missing
AfterOverviewFailureGoesOn == "canton"

\* "if not response: ... return": where the run is after a failed fetch of
\* the overview page
AfterOverviewFailure == "aborted"

\* the overview page: the run returns when it cannot be fetched
FetchOverview ==
    /\ pc = "overview"
    /\ \E ok \in BOOLEAN :
        IF ok
        THEN /\ canton' = 1
             /\ pc' = "canton"
             /\ UNCHANGED << page_num, max_page, index, extracted_items,
                             processed_pages, scraped_urls, all_items,
                             fetched, detail_fetched, fails, run_failed >>
        ELSE /\ fails < MaxFails
             /\ fails' = fails + 1
             /\ run_failed' = TRUE
             /\ pc' = AfterOverviewFailure
             /\ ClearMemory
    /\ UNCHANGED << variant, call_vars, disk, runs, kills, clean_done, killed_mid_page >>

\* a failed fetch of the canton page: "continue" with the next canton
OnFirstPageFetchFailed ==
    /\ canton' = canton + 1
    /\ pc' = "canton"
    /\ UNCHANGED << page_num, max_page, index, extracted_items, disk >>

\* first page of a canton that is not marked processed
FetchFirstPage ==
    /\ pc = "canton"
    /\ canton <= NumCantons
    /\ ~FirstPageProcessed(canton)
    /\ \E ok \in BOOLEAN, F \in SUBSET ProbeCandidates :
        IF ~ok
        THEN /\ F = {}
             /\ fails < MaxFails
             /\ fails' = fails + 1
             /\ run_failed' = TRUE
             /\ fetched' = fetched \cup {Fetch("page", canton, 1, FALSE)}
             /\ OnFirstPageFetchFailed
        ELSE LET r == GetMaxPage(variant, canton, F)
             IN  /\ F \subseteq r.probes
                 /\ fails + Cardinality(F) <= MaxFails
                 /\ fails' = fails + Cardinality(F)
                 /\ run_failed' = (run_failed \/ F # {})
                 /\ fetched' = fetched \cup {Fetch("page", canton, 1, TRUE)}
                                       \cup ProbeFetches(canton, r, F)
                 /\ max_page' = r.max
                 /\ page_num' = 1
                 /\ index' = 1
                 /\ extracted_items' = << >>
                 /\ pc' = "extract"
                 /\ UNCHANGED << canton, disk >>
    /\ UNCHANGED << variant, call_vars, processed_pages, scraped_urls, all_items,
                    runs, kills, detail_fetched, clean_done, killed_mid_page >>

\* first page already marked processed: it is fetched again for max_page
ResumeCanton ==
    /\ pc = "canton"
    /\ canton <= NumCantons
    /\ FirstPageProcessed(canton)
    /\ \E ok \in BOOLEAN, F \in SUBSET ProbeCandidates :
        IF ~ok
        THEN /\ F = {}
             /\ fails < MaxFails
             /\ fails' = fails + 1
             /\ run_failed' = TRUE
             /\ fetched' = fetched \cup {Fetch("resume", canton, 1, FALSE)}
             /\ max_page' = 1
        ELSE LET r == GetMaxPage(variant, canton, F)
             IN  /\ F \subseteq r.probes
                 /\ fails + Cardinality(F) <= MaxFails
                 /\ fails' = fails + Cardinality(F)
                 /\ run_failed' = (run_failed \/ F # {})
                 /\ fetched' = fetched \cup {Fetch("resume", canton, 1, TRUE)}
                                       \cup ProbeFetches(canton, r, F)
                 /\ max_page' = r.max
    /\ page_num' = 2
    /\ pc' = "pages"
    /\ UNCHANGED << variant, call_vars, canton, index, extracted_items, processed_pages,
                    scraped_urls, all_items, disk, runs, kills,
                    detail_fetched, clean_done, killed_mid_page >>

\* the page loop written as range(2, max_page): the last page is left out
NextCantonEarly ==
    /\ pc = "pages"
    /\ page_num >= max_page
    /\ canton' = canton + 1
    /\ pc' = "canton"
    /\ UNCHANGED << variant, call_vars, page_num, max_page, index, extracted_items,
                    processed_pages, scraped_urls, all_items, disk, runs,
                    kills, fails, fetched, detail_fetched, run_failed,
                    clean_done, killed_mid_page >>

\* "for page_num in range(2, max_page + 1)" is exhausted
NextCanton ==
    /\ pc = "pages"
    /\ page_num > max_page
    /\ canton' = canton + 1
    /\ pc' = "canton"
    /\ UNCHANGED << variant, call_vars, page_num, max_page, index, extracted_items,
                    processed_pages, scraped_urls, all_items, disk, runs,
                    kills, fails, fetched, detail_fetched, run_failed,
                    clean_done, killed_mid_page >>

\* a page that is marked processed is skipped
SkipPage ==
    /\ pc = "pages"
    /\ page_num <= max_page
    /\ PageIsProcessed(canton, page_num)
    /\ page_num' = page_num + 1
    /\ UNCHANGED << variant, call_vars, pc, canton, max_page, index, extracted_items,
                    processed_pages, scraped_urls, all_items, disk, runs,
                    kills, fails, fetched, detail_fetched, run_failed,
                    clean_done, killed_mid_page >>

\* a failed fetch that still marks the page processed
OnPageFetchFailedMarks ==
    /\ page_num' = page_num + 1
    /\ pc' = "pages"
    /\ processed_file' = Append(processed_file, << canton, page_num >>)
    /\ UNCHANGED << canton, index, extracted_items, progress_file, output_file >>

\* a failed fetch of a page: "continue" with the next page
OnPageFetchFailed ==
    /\ page_num' = page_num + 1
    /\ pc' = "pages"
    /\ UNCHANGED << canton, index, extracted_items, disk >>

\* a page that is not marked processed is fetched
FetchPage ==
    /\ pc = "pages"
    /\ page_num <= max_page
    /\ ~PageIsProcessed(canton, page_num)
    /\ \E ok \in BOOLEAN :
        /\ fetched' = fetched \cup {Fetch("page", canton, page_num, ok)}
        /\ IF ok
           THEN /\ index' = 1
                /\ extracted_items' = << >>
                /\ pc' = "extract"
                /\ UNCHANGED << canton, page_num, disk, fails, run_failed >>
           ELSE /\ fails < MaxFails
                /\ fails' = fails + 1
                /\ run_failed' = TRUE
                /\ OnPageFetchFailed
    /\ UNCHANGED << variant, call_vars, max_page, processed_pages, scraped_urls,
                    all_items, runs, kills, detail_fetched, clean_done,
                    killed_mid_page >>

\* one iteration of the item loop of extract_items / extract_practices
ExtractItem ==
    /\ pc = "extract"
    /\ index <= Len(PageItems(canton, page_num))
    /\ LET item == PageItems(canton, page_num)[index]
           item_url == ItemUrl(variant, item)
       IN  IF SkipAlreadyScraped(variant, item_url)
           THEN UNCHANGED << extracted_items, scraped_urls, detail_fetched,
                             fails, run_failed >>
           ELSE /\ \E ok \in BOOLEAN :
                    IF WantsDetails(variant, item_url)
                    THEN /\ detail_fetched' = detail_fetched \cup {item}
                         /\ IF ok
                            THEN /\ extracted_items' = Append(extracted_items,
                                        ItemData(variant, item,
                                            ExtractItemDetails(variant, item, TRUE)))
                                 /\ UNCHANGED << fails, run_failed >>
                            ELSE /\ fails < MaxFails
                                 /\ fails' = fails + 1
                                 /\ run_failed' = TRUE
                                 /\ extracted_items' = Append(extracted_items,
                                        ItemData(variant, item,
                                            ExtractItemDetails(variant, item, FALSE)))
                    ELSE /\ ok
                         /\ extracted_items' = Append(extracted_items,
                                ItemData(variant, item, NoDetails(variant)))
                         /\ UNCHANGED << detail_fetched, fails, run_failed >>
                /\ scraped_urls' = IF variant = "base"
                                   THEN scraped_urls \cup {item_url}
                                   ELSE scraped_urls
    /\ index' = index + 1
    /\ UNCHANGED << variant, call_vars, pc, canton, page_num, max_page, processed_pages,
                    all_items, disk, runs, kills, fetched, clean_done,
                    killed_mid_page >>

\* the item loop is over: the new records of the page are returned
FinishExtract ==
    /\ pc = "extract"
    /\ index > Len(PageItems(canton, page_num))
    /\ IF variant = "base"
       THEN UNCHANGED << extracted_items, scraped_urls >>
       ELSE LET r == FilterNew(variant, extracted_items, scraped_urls)
            IN  /\ extracted_items' = r.new
                /\ scraped_urls' = r.seen
    /\ pc' = PageSteps[1]
    /\ UNCHANGED << variant, call_vars, canton, page_num, max_page, index,
                    processed_pages, all_items, disk, runs, kills, fails,
                    fetched, detail_fetched, run_failed, clean_done,
                    killed_mid_page >>

\* all_items.extend(items); save_progress(items)
SaveProgress ==
    /\ pc = "save"
    /\ all_items' = all_items \o extracted_items
    /\ progress_file' = AppendRecords(variant, progress_file, extracted_items)
    /\ AdvanceFrom("save")
    /\ UNCHANGED << variant, call_vars, canton, max_page, index, extracted_items,
                    processed_pages, scraped_urls, processed_file,
                    output_file, runs, kills, fails, fetched, detail_fetched,
                    run_failed, clean_done, killed_mid_page >>

\* _mark_page_processed(canton_name, page_num)
MarkPageProcessed ==
    /\ pc = "mark"
    /\ processed_file' = Append(processed_file, << canton, page_num >>)
    /\ AdvanceFrom("mark")
    /\ UNCHANGED << variant, call_vars, canton, max_page, index, extracted_items,
                    processed_pages, scraped_urls, all_items, progress_file,
                    output_file, runs, kills, fails, fetched, detail_fetched,
                    run_failed, clean_done, killed_mid_page >>

\* every canton has been visited: the final output is written, run() returns
Finalize ==
    /\ pc = "canton"
    /\ canton > NumCantons
    /\ output_file' = FinalWrite(variant, output_file, all_items)
    /\ clean_done' = (clean_done \/ ~run_failed)
    /\ pc' = "completed"
    /\ ClearMemory
    /\ UNCHANGED << variant, call_vars, progress_file, processed_file, runs, kills,
                    fails, run_failed, killed_mid_page >>

\* the process is killed: its memory is lost, the files stay as they are
Kill ==
    /\ pc \in Running
    /\ kills < MaxKills
    /\ kills' = kills + 1
    /\ killed_mid_page' = (killed_mid_page \/ pc \in {"extract", "save", "mark"})
    /\ pc' = "killed"
    /\ ClearMemory
    /\ UNCHANGED << variant, call_vars, disk, runs, fails, run_failed, clean_done >>

Next ==
    \/ StartRun
    \/ FetchOverview
    \/ FetchFirstPage
    \/ ResumeCanton
    \/ NextCanton
    \/ SkipPage
    \/ FetchPage
    \/ ExtractItem
    \/ FinishExtract
    \/ SaveProgress
    \/ MarkPageProcessed
    \/ Finalize
    \/ Kill

\* both implementations
Spec == Init /\ [][Next]_vars

\* BaseHealthcareScraper only
InitBase == Init /\ variant = "base"

SpecBase == InitBase /\ [][Next]_vars

\* get-medclinics.py only
InitMed == Init /\ variant = "med"

SpecMed == InitMed /\ [][Next]_vars

---------------------------------------------------------------------------
(* fetch_page called on its own.  The connectivity checks and the calls    *)
(* of session.get succeed or fail as the network decides.                   *)

\* "session": ScraperSession.fetch_page of common.py
\* "script":  fetch_page of get-clinics.py and of get-medclinics.py
FetchImpls == {"session", "script"}

MaxRetries == 3
MaxRetryDelay == 2

\* "for _ in range(12)"
MaxPolls == 12

\* after a failed first check the script sleeps retry_delay and checks once
\* more; ScraperSession returns None at once
RechecksAtStart(impl) == impl = "script"

\* after the backoff sleep the script checks connectivity again;
\* ScraperSession goes straight to the next attempt
RechecksBeforeRetry(impl) == impl = "script"

\* the delay doubled once too often
BackoffWaitDoubled(d, a) == d * 2^(a + 1)

\* "retry_delay * (2 ** attempt)"
BackoffWait(d, a) == d * 2^a

\* "if attempt < max_retries - 1"
BackoffFollows(a, n) == a < n - 1

\* a loop that runs once more than range(max_retries)
HasNextAttemptOneMore(a, n) == a + 1 <= n

\* "for attempt in range(max_retries)" has a value after a
HasNextAttempt(a, n) == a + 1 < n

InitFetch ==
    /\ variant = "base"
    /\ CrawlIdle
    /\ DiscoveryIdle
    /\ AddressIdle
    /\ LaterIdle
    /\ fetch_impl \in FetchImpls
    /\ max_retries \in 1..MaxRetries
    /\ retry_delay \in 1..MaxRetryDelay
    /\ fetch_pc = "check"
    /\ attempt = 0 /\ polls = 0
    /\ fetch_result = NoValue
    /\ checks = << >> /\ fixed_waits = 0 /\ attempts_made = 0
    /\ http_ok = FALSE /\ backoff_total = 0 /\ rechecked = FALSE

FetchUntouched ==
    UNCHANGED << variant, crawl_vars, discovery_vars, address_vars, later_vars >>

\* the body of the attempt loop has ended for this value of attempt
EndOfIteration ==
    IF HasNextAttempt(attempt, max_retries)
    THEN /\ attempt' = attempt + 1
         /\ fetch_pc' = "attempt"
         /\ fetch_result' = fetch_result
    ELSE /\ attempt' = attempt
         /\ fetch_pc' = "returned"
         /\ fetch_result' = "None"

\* "if not check_internet_connection():" at the start of fetch_page
FirstConnectionCheck ==
    /\ fetch_pc = "check"
    /\ \E up \in BOOLEAN :
        /\ checks' = Append(checks, up)
        /\ IF up
           THEN /\ fetch_pc' = "attempt"
                /\ UNCHANGED << fetch_result, fixed_waits >>
           ELSE IF RechecksAtStart(fetch_impl)
           THEN /\ fixed_waits' = fixed_waits + 1
                /\ fetch_pc' = "recheck"
                /\ UNCHANGED fetch_result
           ELSE /\ fetch_pc' = "returned"
                /\ fetch_result' = "None"
                /\ UNCHANGED fixed_waits
    /\ UNCHANGED << fetch_impl, max_retries, retry_delay, attempt, polls,
                    attempts_made, http_ok, backoff_total, rechecked >>
    /\ FetchUntouched

\* the second "if not check_internet_connection():" after time.sleep(retry_delay)
SecondConnectionCheck ==
    /\ fetch_pc = "recheck"
    /\ \E up \in BOOLEAN :
        /\ checks' = Append(checks, up)
        /\ IF up
           THEN fetch_pc' = "attempt" /\ UNCHANGED fetch_result
           ELSE fetch_pc' = "returned" /\ fetch_result' = "None"
    /\ UNCHANGED << fetch_impl, max_retries, retry_delay, attempt, polls,
                    fixed_waits, attempts_made, http_ok, backoff_total,
                    rechecked >>
    /\ FetchUntouched

\* one pass through the try block: session.get and raise_for_status
HttpAttempt ==
    /\ fetch_pc = "attempt"
    /\ attempts_made' = attempts_made + 1
    /\ rechecked' = FALSE
    /\ polls' = 0
    /\ \E ok \in BOOLEAN :
        IF ok
        THEN /\ http_ok' = TRUE
             /\ fetch_result' = "response"
             /\ fetch_pc' = "returned"
             /\ UNCHANGED attempt
        ELSE /\ UNCHANGED http_ok
             /\ IF BackoffFollows(attempt, max_retries)
                THEN /\ fetch_pc' = "backoff"
                     /\ UNCHANGED << attempt, fetch_result >>
                ELSE EndOfIteration
    /\ UNCHANGED << fetch_impl, max_retries, retry_delay, checks, fixed_waits,
                    backoff_total >>
    /\ FetchUntouched

\* the exponential backoff sleep of the except block
Backoff ==
    /\ fetch_pc = "backoff"
    /\ backoff_total' = backoff_total + BackoffWait(retry_delay, attempt)
    /\ IF RechecksBeforeRetry(fetch_impl)
       THEN /\ fetch_pc' = "connectivity"
            /\ UNCHANGED << attempt, fetch_result >>
       ELSE EndOfIteration
    /\ UNCHANGED << fetch_impl, max_retries, retry_delay, polls, checks,
                    fixed_waits, attempts_made, http_ok, rechecked >>
    /\ FetchUntouched

\* "Check internet connection again before retry"
CheckBeforeRetry ==
    /\ fetch_pc = "connectivity"
    /\ rechecked' = TRUE
    /\ \E up \in BOOLEAN :
        IF up
        THEN EndOfIteration /\ UNCHANGED polls
        ELSE /\ fetch_pc' = "poll"
             /\ polls' = 0
             /\ UNCHANGED << attempt, fetch_result >>
    /\ UNCHANGED << fetch_impl, max_retries, retry_delay, checks, fixed_waits,
                    attempts_made, http_ok, backoff_total >>
    /\ FetchUntouched

\* one iteration of "for _ in range(12)": sleep 10 s, check, break when up
Poll ==
    /\ fetch_pc = "poll"
    /\ polls < MaxPolls
    /\ polls' = polls + 1
    /\ \E up \in BOOLEAN :
        IF up \/ polls + 1 = MaxPolls
        THEN EndOfIteration
        ELSE UNCHANGED << fetch_pc, attempt, fetch_result >>
    /\ UNCHANGED << fetch_impl, max_retries, retry_delay, checks, fixed_waits,
                    attempts_made, http_ok, backoff_total, rechecked >>
    /\ FetchUntouched

NextFetch ==
    \/ FirstConnectionCheck
    \/ SecondConnectionCheck
    \/ HttpAttempt
    \/ Backoff
    \/ CheckBeforeRetry
    \/ Poll

SpecFetch == InitFetch /\ [][NextFetch]_vars

---------------------------------------------------------------------------
(* get_max_page_number called on its own, on the first page of a category *)
(* of any size.  What a page renders as pagination is up to the site: a    *)
(* rendering is the highest numeric link of the control.                   *)

MaxCategoryPages == 13
MaxLink == 4

\* soup.find('ul', class_='pagination') is None
NoPagination == -1

\* the control holds no link whose text is a number: visible_pages is empty
NoNumericLinks == 0

Renderings == NoPagination..MaxLink

\* a control with no numeric link taken for one that shows pages
HasVisiblePagesOrEmpty(r) == r >= NoNumericLinks

\* "if not pagination: return 1" and "if not visible_pages: return 1" passed
HasVisiblePages(r) == r > NoNumericLinks

\* find_all('div', class_='directory-item') is not empty on page p
HasItems(p) == p \in 1..num_pages

\* a probe that only asks whether the page could be fetched
ProbeFoundAnyPage(ok, p) == ok

\* "if response:" ... "if test_items:"
ProbeFound(ok, p) == ok /\ HasItems(p)

\* the test written with < : the same page number counts as higher
NoHigherPageStrict(seen, current) == seen < current

\* "if not check_visible_pages or max(check_visible_pages) <= new_highest"
NoHigherPage(seen, current) == seen <= current

InitDiscovery ==
    /\ variant \in Variants
    /\ CrawlIdle
    /\ FetchIdle
    /\ AddressIdle
    /\ LaterIdle
    /\ num_pages \in 1..MaxCategoryPages
    /\ first_links \in Renderings
    /\ dpc = "start"
    /\ d_highest_visible = 0 /\ d_new_highest = 0
    /\ d_previous_highest = 0 /\ d_test_page = 0
    /\ returned_max = 0 /\ probe_log = {}

DiscoveryUntouched ==
    UNCHANGED << variant, crawl_vars, fetch_vars, address_vars, later_vars, num_pages,
                 first_links >>

\* "return n"
Return(n) == dpc' = "returned" /\ returned_max' = n

\* fetch_page(f"{canton_url}?page={p}")
Probe(p, ok) == probe_log' = probe_log \cup {[p |-> p, ok |-> ok]}

\* the pagination of the first page is read
ReadFirstPage ==
    /\ dpc = "start"
    /\ IF ~HasVisiblePages(first_links)
       THEN /\ Return(1)
            /\ UNCHANGED << d_highest_visible, d_test_page >>
       ELSE /\ d_highest_visible' = first_links
            /\ IF variant = "base"
               THEN dpc' = "probe" /\ d_test_page' = first_links + 1
               ELSE dpc' = "next_check" /\ UNCHANGED d_test_page
            /\ UNCHANGED returned_max
    /\ UNCHANGED << d_new_highest, d_previous_highest, probe_log >>
    /\ DiscoveryUntouched

\* base_scraper.py: "check one page beyond what's visible"
ProbeOneBeyond ==
    /\ dpc = "probe"
    /\ \E ok \in BOOLEAN :
        /\ Probe(d_test_page, ok)
        /\ IF ProbeFound(ok, d_test_page)
           THEN Return(d_test_page)
           ELSE Return(d_highest_visible)
    /\ UNCHANGED << d_highest_visible, d_new_highest, d_previous_highest,
                    d_test_page >>
    /\ DiscoveryUntouched

\* get-medclinics.py: the page with the highest visible number is fetched
CheckHighestVisible ==
    /\ dpc = "next_check"
    /\ \E ok \in BOOLEAN, next_links \in Renderings :
        /\ Probe(d_highest_visible, ok)
        /\ IF ~ok \/ next_links = NoPagination
           THEN Return(d_highest_visible) /\ UNCHANGED d_new_highest
           ELSE IF HasVisiblePages(next_links) /\ next_links > d_highest_visible
           THEN /\ d_new_highest' = next_links
                /\ dpc' = "loop"
                /\ UNCHANGED returned_max
           ELSE Return(d_highest_visible) /\ UNCHANGED d_new_highest
    /\ UNCHANGED << d_highest_visible, d_previous_highest, d_test_page >>
    /\ DiscoveryUntouched

\* get-medclinics.py: one pass through "while True" up to the progress test
CheckNewHighest ==
    /\ dpc = "loop"
    /\ d_previous_highest' = d_new_highest
    /\ \E ok \in BOOLEAN, check_links \in Renderings :
        /\ Probe(d_new_highest, ok)
        /\ IF ~ok
           THEN Return(d_new_highest) /\ UNCHANGED << d_new_highest, d_test_page >>
           ELSE IF check_links = NoPagination
           THEN Return(d_new_highest) /\ UNCHANGED << d_new_highest, d_test_page >>
           ELSE IF ~HasVisiblePages(check_links) \/ NoHigherPage(check_links, d_new_highest)
           THEN Return(d_new_highest) /\ UNCHANGED << d_new_highest, d_test_page >>
           ELSE /\ d_new_highest' = check_links
                /\ IF check_links - d_new_highest < MinProgress
                   THEN dpc' = "validate" /\ d_test_page' = check_links + LookaheadJump
                   ELSE dpc' = "loop" /\ UNCHANGED d_test_page
                /\ UNCHANGED returned_max
    /\ UNCHANGED d_highest_visible
    /\ DiscoveryUntouched

\* get-medclinics.py: "Do a direct check of a page well beyond this"
ValidateBeyond ==
    /\ dpc = "validate"
    /\ \E ok \in BOOLEAN :
        /\ Probe(d_test_page, ok)
        /\ d_new_highest' = IF ProbeFound(ok, d_test_page) THEN d_test_page
                            ELSE d_new_highest
    /\ dpc' = "loop"
    /\ UNCHANGED << d_highest_visible, d_previous_highest, d_test_page,
                    returned_max >>
    /\ DiscoveryUntouched

NextDiscovery ==
    \/ ReadFirstPage
    \/ ProbeOneBeyond
    \/ CheckHighestVisible
    \/ CheckNewHighest
    \/ ValidateBeyond

SpecDiscovery == InitDiscovery /\ [][NextDiscovery]_vars

\* the call keeps running until it returns
FairSpecDiscovery == SpecDiscovery /\ WF_vars(NextDiscovery)

---------------------------------------------------------------------------
(* parse_address called on its own.  A string is the sequence of its       *)
(* characters.                                                             *)

MaxAddressTokens == 5

\* the pieces addresses are put together from: a letter, a digit, four
\* digits, a blank, a comma, and the separator ", "
AddressTokens ==
    { << "a" >>, << "7" >>, << "7", "7", "7", "7" >>, << " " >>, << "," >>,
      << ",", " " >> }

RECURSIVE Flatten(_)
Flatten(ts) == IF ts = << >> THEN << >> ELSE Head(ts) \o Flatten(Tail(ts))

Addresses ==
    { Flatten(ts) : ts \in UNION { [1..n -> AddressTokens] : n \in 0..MaxAddressTokens } }

\* \d
IsDigit(ch) == ch = "7"

\* \s, and what str.strip() removes
IsSpace(ch) == ch = " "

\* str.strip()
RECURSIVE Strip(_)
Strip(str) ==
    IF str = << >> THEN str
    ELSE IF IsSpace(Head(str)) THEN Strip(Tail(str))
    ELSE IF IsSpace(str[Len(str)]) THEN Strip(SubSeq(str, 1, Len(str) - 1))
    ELSE str

\* the positions at which ", " starts in str
SeparatorsAt(str) ==
    { i \in 1..(Len(str) - 1) : str[i] = "," /\ str[i + 1] = " " }

\* '", " in address'
HasSeparator(str) == SeparatorsAt(str) # {}

FirstSeparator(str) == CHOOSE i \in SeparatorsAt(str) : \A j \in SeparatorsAt(str) : i <= j

\* str.split(", "), str holding the separator
RECURSIVE Split(_)
Split(str) ==
    IF ~HasSeparator(str) THEN << str >>
    ELSE LET i == FirstSeparator(str)
         IN  << SubSeq(str, 1, i - 1) >> \o Split(SubSeq(str, i + 2, Len(str)))

\* the positions at which r'(\d{4})\s+(.*)' matches in str
PostalMatchesAt(str) ==
    { i \in 1..(Len(str) - 4) :
        /\ \A k \in 0..3 : IsDigit(str[i + k])
        /\ IsSpace(str[i + 4]) }

\* what follows the run of whitespace that starts at position i
RECURSIVE AfterSpaces(_, _)
AfterSpaces(str, i) ==
    IF i <= Len(str) /\ IsSpace(str[i]) THEN AfterSpaces(str, i + 1)
    ELSE SubSeq(str, i, Len(str))

\* re.search(r'(\d{4})\s+(.*)', str): the leftmost match, or no match
PostalSearch(str) ==
    IF PostalMatchesAt(str) = {} THEN [found |-> FALSE]
    ELSE LET i == CHOOSE m \in PostalMatchesAt(str) :
                      \A n \in PostalMatchesAt(str) : m <= n
         IN  [found |-> TRUE,
              group1 |-> SubSeq(str, i, i + 3),
              group2 |-> AfterSpaces(str, i + 4)]

\* BaseHealthcareScraper.parse_address
ParseAddress(addr) ==
    IF addr # << >> /\ HasSeparator(addr)
    THEN LET address_parts == Split(addr)
             street == Strip(address_parts[1])
             postal_city == Strip(address_parts[2])
             postal_match == PostalSearch(postal_city)
         IN  IF postal_match.found
             THEN [street |-> street,
                   postal_code |-> postal_match.group1,
                   city |-> Strip(postal_match.group2)]
             ELSE [street |-> street, postal_code |-> << >>, city |-> postal_city]
    ELSE [street |-> << >>, postal_code |-> << >>, city |-> << >>]

InitAddress ==
    /\ variant = "base"
    /\ CrawlIdle
    /\ FetchIdle
    /\ DiscoveryIdle
    /\ LaterIdle
    /\ address \in Addresses
    /\ apc = "call"
    /\ parsed = NoValue

\* address_parts = self.parse_address(address)
CallParseAddress ==
    /\ apc = "call"
    /\ parsed' = ParseAddress(address)
    /\ apc' = "done"
    /\ UNCHANGED << variant, crawl_vars, fetch_vars, discovery_vars, later_vars,
                    address >>

NextAddress == CallParseAddress

SpecAddress == InitAddress /\ [][NextAddress]_vars

---------------------------------------------------------------------------
(* The processed-pages log written and loaded on its own.  Rows reach the  *)
(* log through _mark_page_processed; a run killed while it writes, or an   *)
(* edit by hand, leaves rows that are not (category, page) records.        *)

MaxLogRows == 3
LogCantons == 1..2
LogPages == 1..2

\* rows that no call of _mark_page_processed writes in full: a blank line,
\* a line of one column, a line whose page field is not a numeral
ForeignRows ==
    { << >> } \cup { << c >> : c \in LogCantons }
              \cup { << c, NotAnInteger >> : c \in LogCantons }

InitLog ==
    /\ variant \in Variants
    /\ CrawlIdle
    /\ FetchIdle
    /\ DiscoveryIdle
    /\ AddressIdle
    /\ StdIdle
    /\ EnrichIdle
    /\ MoreIdle
    /\ log_pc = "open"
    /\ marked = {}

LogUntouched ==
    UNCHANGED << variant, call_vars_but_log, pc, canton, page_num, max_page,
                 index, extracted_items, scraped_urls, all_items,
                 progress_file, output_file, runs, kills, fails, fetched,
                 detail_fetched, run_failed, clean_done, killed_mid_page >>

\* _mark_page_processed(canton, page_num) / mark_page_processed
MarkPage ==
    /\ log_pc = "open"
    /\ Len(processed_file) < MaxLogRows
    /\ \E c \in LogCantons, p \in LogPages :
        /\ processed_file' = Append(processed_file, << c, p >>)
        /\ marked' = marked \cup {<< c, p >>}
    /\ UNCHANGED << log_pc, processed_pages >>
    /\ LogUntouched

\* a row that is no record gets into the log
ForeignRow ==
    /\ log_pc = "open"
    /\ Len(processed_file) < MaxLogRows
    /\ \E row \in ForeignRows : processed_file' = Append(processed_file, row)
    /\ UNCHANGED << log_pc, processed_pages, marked >>
    /\ LogUntouched

\* the next run starts: _load_processed_pages() / check_processed_pages()
LoadLog ==
    /\ log_pc = "open"
    /\ IF LoadRaises(processed_file)
       THEN log_pc' = "ValueError" /\ UNCHANGED processed_pages
       ELSE /\ log_pc' = "loaded"
            /\ processed_pages' = LoadProcessedPages(processed_file)
    /\ UNCHANGED << processed_file, marked >>
    /\ LogUntouched

NextLog ==
    \/ MarkPage
    \/ ForeignRow
    \/ LoadLog

SpecLog == InitLog /\ [][NextLog]_vars

---------------------------------------------------------------------------
(* standardize_csv_output called on its own, on lists of records that lack *)
(* some of the fields or carry texts no pattern matches.                   *)

MaxRecords == 2

\* the keys standardize_csv_output reads from a record
InputKeys ==
    { "name", "address", "city", "postal_code", "phone", "email",
      "website", "specialty", "source_url", "scraped_at" }

\* the keys of a standardized record
StandardKeys == InputKeys \cup { "type" }

\* the tags the scrapers pass
ScraperTypes == { "clinic", "hospital" }

TextStyles == { "plain", "untidy", "blank" }

\* a text for a field: one the patterns match, one they do not, an empty one
SampleText(style, key) ==
    CASE style = "blank" -> ""
      [] style = "plain" ->
             (CASE key = "phone" -> "Tel 044 123 45 67"
                [] key = "email" -> "Mail: a@b.ch"
                [] key = "scraped_at" -> "2024-01-01"
                [] OTHER -> "Praxis A")
      [] OTHER ->
             (CASE key \in { "phone", "email" } -> "n/a"
                [] key = "scraped_at" -> "2024-01-02"
                [] OTHER -> " Praxis\nB ")

\* the fields a record has: all of them, all but one, none
KeySets == { InputKeys, {} } \cup { InputKeys \ { k } : k \in InputKeys }

InputRecords ==
    { [k \in keys |-> SampleText(style, k)] : style \in TextStyles, keys \in KeySets }

InputLists ==
    UNION { [1..n -> InputRecords] : n \in 0..MaxRecords }

\* the record standardize_csv_output builds from one item
StandardizeRecord(item, tag) ==
    [name        |-> CleanText(RowGet(item, "name", "")),
     address     |-> CleanText(RowGet(item, "address", "")),
     city        |-> CleanText(RowGet(item, "city", "")),
     postal_code |-> CleanText(RowGet(item, "postal_code", "")),
     phone       |-> ExtractPhone(RowGet(item, "phone", "")),
     email       |-> ExtractEmail(RowGet(item, "email", "")),
     website     |-> CleanText(RowGet(item, "website", "")),
     specialty   |-> CleanText(RowGet(item, "specialty", "")),
     type        |-> tag,
     source_url  |-> CleanText(RowGet(item, "source_url", "")),
     scraped_at  |-> RowGet(item, "scraped_at", "")]

\* the records come out back to front
StandardizeCsvOutputReversed(data, tag) ==
    [i \in 1..Len(data) |-> StandardizeRecord(data[Len(data) + 1 - i], tag)]

\* standardize_csv_output: one record appended per item of data, in order
StandardizeCsvOutput(data, tag) ==
    [i \in 1..Len(data) |-> StandardizeRecord(data[i], tag)]

InitStd ==
    /\ variant \in Variants
    /\ CrawlIdle
    /\ FetchIdle
    /\ DiscoveryIdle
    /\ AddressIdle
    /\ LogIdle
    /\ EnrichIdle
    /\ MoreIdle
    /\ std_pc = "call"
    /\ std_data \in InputLists
    /\ scraper_type \in ScraperTypes
    /\ standardized = << >>

\* standardized = standardize_csv_output(data, scraper_type)
CallStandardize ==
    /\ std_pc = "call"
    /\ standardized' = StandardizeCsvOutput(std_data, scraper_type)
    /\ std_pc' = "done"
    /\ UNCHANGED << variant, crawl_vars, fetch_vars, discovery_vars,
                    address_vars, log_vars, enrich_vars, more_vars, std_data,
                    scraper_type >>

NextStd == CallStandardize

SpecStd == InitStd /\ [][NextStd]_vars

---------------------------------------------------------------------------
(* medicalCenters/urlFetch.py: the rows are enriched by the threads of a   *)
(* pool, worker_thread writes each finished row, curses_dashboard reads    *)
(* the progress messages, Ctrl+C sets stop_event.                          *)

NumRows == 3
MaxWorkers == 2

\* rows_to_process
EnrichRows == 1..NumRows

\* the rows a thread of the pool is working on
InFlight == { i \in DOMAIN future : future[i] = "running" }

\* the states of a future whose process_one_row has returned
FinishedStates == { "enriched", "late", "unchanged" }

\* the rows that have a row in csvfile
WrittenRows == { csvfile[k].idx : k \in 1..Len(csvfile) }

\* the futures that are done and that as_completed has not yielded yet
ReadyFutures ==
    { i \in DOMAIN future :
        /\ future[i] \in FinishedStates
        /\ i # wt_future
        /\ i \notin WrittenRows }

\* curses_dashboard has started worker_thread, which has opened the output
\* file and submitted one future per row
InitEnrich ==
    /\ variant \in Variants
    /\ CrawlIdle
    /\ FetchIdle
    /\ DiscoveryIdle
    /\ AddressIdle
    /\ LogIdle
    /\ StdIdle
    /\ MoreIdle
    /\ stop_event = FALSE
    /\ future = [i \in EnrichRows |-> "pending"]
    /\ wt_pc = "as_completed" /\ wt_future = 0 /\ active_count = 0
    /\ csvfile = << >> /\ csv_open = TRUE
    /\ progress_queue = << >>
    /\ dash_pc = "loop" /\ current_stats = 0 /\ summary = NotPrinted

EnrichUntouched ==
    UNCHANGED << variant, crawl_vars, fetch_vars, discovery_vars, address_vars,
                 log_vars, std_vars, more_vars >>

\* handle_sigint
SetStop ==
    /\ ~stop_event
    /\ summary = NotPrinted
    /\ stop_event' = TRUE
    /\ UNCHANGED << future, wt_pc, wt_future, active_count, csvfile, csv_open,
                    progress_queue, dash_pc, current_stats, summary >>
    /\ EnrichUntouched

\* a thread of the pool takes a submitted row: process_one_row returns the
\* row as it is when stop_event is set, and goes on to fetch otherwise
StartTask ==
    /\ \E i \in DOMAIN future :
        /\ future[i] = "pending"
        /\ Cardinality(InFlight) < MaxWorkers
        /\ future' = [future EXCEPT ![i] = IF stop_event THEN "unchanged" ELSE "running"]
    /\ UNCHANGED << stop_event, wt_pc, wt_future, active_count, csvfile, csv_open,
                    progress_queue, dash_pc, current_stats, summary >>
    /\ EnrichUntouched

\* process_one_row returns: the row is enriched; when stop_event was set on
\* the way, fetch_company_url may have given up with an empty URL
FinishTask ==
    /\ \E i \in DOMAIN future :
        /\ future[i] = "running"
        /\ future' = [future EXCEPT ![i] = IF stop_event THEN "late" ELSE "enriched"]
    /\ UNCHANGED << stop_event, wt_pc, wt_future, active_count, csvfile, csv_open,
                    progress_queue, dash_pc, current_stats, summary >>
    /\ EnrichUntouched

\* for future in as_completed(future_map): the next finished future
NextFuture ==
    /\ wt_pc = "as_completed"
    /\ \E i \in ReadyFutures : wt_future' = i
    /\ wt_pc' = "check"
    /\ UNCHANGED << stop_event, future, active_count, csvfile, csv_open,
                    progress_queue, dash_pc, current_stats, summary >>
    /\ EnrichUntouched

\* worker_thread never looks at stop_event
StopIsSetNever == FALSE

\* stop_event.is_set() as worker_thread reads it
StopIsSet == stop_event

\* if stop_event.is_set(): shutdown(wait=False, cancel_futures=True),
\* csvfile.close(), CANCEL, return; the return leaves the with block
StopCheck ==
    /\ wt_pc = "check"
    /\ IF StopIsSet
       THEN /\ future' = [i \in DOMAIN future |->
                             IF future[i] = "pending" THEN "cancelled" ELSE future[i]]
            /\ csv_open' = FALSE
            /\ progress_queue' = Append(progress_queue, [type |-> "CANCEL"])
            /\ wt_pc' = "exit"
       ELSE /\ wt_pc' = "write"
            /\ UNCHANGED << future, csv_open, progress_queue >>
    /\ UNCHANGED << stop_event, wt_future, active_count, csvfile, dash_pc,
                    current_stats, summary >>
    /\ EnrichUntouched

\* with write_lock: writer.writerow(updated_row); csvfile.flush()
AppendRow ==
    /\ wt_pc = "write"
    /\ csvfile' = Append(csvfile, [idx |-> wt_future, result |-> future[wt_future]])
    /\ wt_pc' = "report"
    /\ UNCHANGED << stop_event, future, wt_future, active_count, csv_open,
                    progress_queue, dash_pc, current_stats, summary >>
    /\ EnrichUntouched

\* active_count += 1; progress_queue.put(progress_dict)
ReportProgress ==
    /\ wt_pc = "report"
    /\ active_count' = active_count + 1
    /\ progress_queue' = Append(progress_queue,
                                [type |-> "PROGRESS", processed_this_run |-> active_count + 1])
    /\ wt_future' = 0
    /\ wt_pc' = "as_completed"
    /\ UNCHANGED << stop_event, future, csvfile, csv_open, dash_pc, current_stats,
                    summary >>
    /\ EnrichUntouched

\* ThreadPoolExecutor.__exit__ on the return: shutdown(wait=True) joins the
\* threads of the pool
ExitPool ==
    /\ wt_pc = "exit"
    /\ InFlight = {}
    /\ wt_pc' = "returned"
    /\ UNCHANGED << stop_event, future, wt_future, active_count, csvfile, csv_open,
                    progress_queue, dash_pc, current_stats, summary >>
    /\ EnrichUntouched

\* every future has been yielded: csvfile.close(), DONE
LoopEnd ==
    /\ wt_pc = "as_completed"
    /\ DOMAIN future \subseteq WrittenRows
    /\ csv_open' = FALSE
    /\ progress_queue' = Append(progress_queue, [type |-> "DONE"])
    /\ wt_pc' = "returned"
    /\ UNCHANGED << stop_event, future, wt_future, active_count, csvfile, dash_pc,
                    current_stats, summary >>
    /\ EnrichUntouched

\* the steps of worker_thread
WorkerThread ==
    \/ NextFuture
    \/ StopCheck
    \/ AppendRow
    \/ ReportProgress
    \/ ExitPool
    \/ LoopEnd

\* one turn of the loop of curses_dashboard: leave when stop_event is set,
\* else take at most one message, then leave when the worker is not alive
DashPoll ==
    /\ dash_pc = "loop"
    /\ IF stop_event
       THEN /\ dash_pc' = "break"
            /\ UNCHANGED << progress_queue, current_stats >>
       ELSE IF progress_queue # << >>
            THEN /\ progress_queue' = Tail(progress_queue)
                 /\ IF Head(progress_queue).type = "PROGRESS"
                    THEN /\ current_stats' = Head(progress_queue).processed_this_run
                         /\ dash_pc' = IF wt_pc = "returned" THEN "break" ELSE "loop"
                    ELSE /\ dash_pc' = "break"
                         /\ UNCHANGED current_stats
            ELSE /\ wt_pc = "returned"
                 /\ dash_pc' = "break"
                 /\ UNCHANGED << progress_queue, current_stats >>
    /\ UNCHANGED << stop_event, future, wt_pc, wt_future, active_count, csvfile,
                    csv_open, summary >>
    /\ EnrichUntouched

\* curses_dashboard returns current_stats, main_curses prints final_summary
FinalSummary ==
    /\ dash_pc = "break"
    /\ summary' = current_stats
    /\ dash_pc' = "done"
    /\ UNCHANGED << stop_event, future, wt_pc, wt_future, active_count, csvfile,
                    csv_open, progress_queue, current_stats >>
    /\ EnrichUntouched

NextEnrich ==
    \/ SetStop
    \/ StartTask
    \/ FinishTask
    \/ NextFuture
    \/ StopCheck
    \/ AppendRow
    \/ ReportProgress
    \/ ExitPool
    \/ LoopEnd
    \/ DashPoll
    \/ FinalSummary

SpecEnrich == InitEnrich /\ [][NextEnrich]_vars

\* worker_thread and the threads of the pool are scheduled; nothing is
\* assumed about the time a fetch takes
FairSpecEnrich == SpecEnrich /\ WF_vars(WorkerThread) /\ WF_vars(StartTask)

---------------------------------------------------------------------------
(* The enrichment of the rows of an input file, run after run:             *)
(* hospitals/urlFetch.py main (one row after the other) and                *)
(* medicalCenters/urlFetch.py main_curses with process_one_row (the rows   *)
(* picked before the run starts).  Here the rows are taken in file order;  *)
(* the pool and its threads are the subject of NextEnrich.                 *)

MaxInputRows == 2
MaxUrlRuns == 2

UrlScripts == { "hospitals", "medicalCenters" }

\* the texts of the name column: two names, a name with a leading blank,
\* an empty name
NameTexts == { "A", "B", " A", "" }

\* str.strip
StripName(text) == IF text = " A" THEN "A" ELSE text

InputFiles == UNION { [1..n -> NameTexts] : n \in 1..MaxInputRows }

\* what the search can come back with: nothing, a site, banned sites
UrlSamples ==
    { "", "https://praxis-a.ch/", "https://www.onedoc.ch/praxis-a",
      "https://termin.comparis.ch/a" }

banned_domains == { "onedoc.ch", "comparis.ch", "doktor.ch" }

\* urlparse(url).netloc.lower(), cut where a banned domain or "www." begins
\* or ends
Netloc(url) ==
    CASE url = "https://praxis-a.ch/" -> << "praxis-a.ch" >>
      [] url = "https://www.onedoc.ch/praxis-a" -> << "www.", "onedoc.ch" >>
      [] url = "https://termin.comparis.ch/a" -> << "termin.", "comparis.ch" >>
      [] OTHER -> << >>

\* no URL is banned
IsBannedUrlNever(url) == FALSE

\* is_banned_url: "www." dropped from the front, then a banned domain
\* anywhere in the rest
IsBannedUrl(url) ==
    LET netloc == Netloc(url)
        domain == IF netloc # << >> /\ Head(netloc) = "www." THEN Tail(netloc) ELSE netloc
    IN  \E banned \in banned_domains : banned \in Range(domain)

\* what check_zuweisung can return: (flag, triggered keywords)
ZuweisungResults ==
    { [flag |-> 0, triggered |-> ""], [flag |-> 1, triggered |-> "zuweisung"] }

\* the row as it is written: the input columns and the three new ones
OutputRow(name, url, result) ==
    [name |-> name, official_website |-> url, Zuweisung |-> result.flag,
     Triggered_Keywords |-> result.triggered]

NoKeywords == [flag |-> 0, triggered |-> ""]

\* processed_names as main builds it from the output file
LoadProcessedNames(file) ==
    { file[k].name : k \in { j \in 1..Len(file) : file[j].name # "" } }

\* the indices of seq that satisfy Keep, in order
RECURSIVE SelectIndices(_, _, _)
SelectIndices(rows, names, from) ==
    IF from > Len(rows) THEN << >>
    ELSE (IF StripName(rows[from]) \notin names THEN << from >> ELSE << >>)
         \o SelectIndices(rows, names, from + 1)

\* the rows the run will look at: all of them (hospitals, which tests each
\* name when its turn comes), rows_to_process (medicalCenters)
RowsOfRun(script, rows, names) ==
    IF script = "hospitals" THEN [i \in 1..Len(rows) |-> i]
    ELSE SelectIndices(rows, names, 1)

InitUrlFetch ==
    /\ variant \in Variants
    /\ CrawlIdle
    /\ FetchIdle
    /\ DiscoveryIdle
    /\ AddressIdle
    /\ LogIdle
    /\ StdIdle
    /\ EnrichIdle
    /\ RateIdle
    /\ GroupIdle
    /\ DocsIdle
    /\ url_output = << >>
    /\ \E script \in UrlScripts, rows \in InputFiles :
          url_main = [script |-> script, pc |-> "idle", all_rows |-> rows,
                      processed_names |-> {}, todo |-> << >>, url |-> "",
                      checked |-> {}, runs |-> 0]

UrlFetchUntouched ==
    UNCHANGED << variant, crawl_vars, fetch_vars, discovery_vars, address_vars,
                 log_vars, std_vars, enrich_vars, rate_vars, group_vars,
                 docs_vars >>

\* main starts: processed_names from the output file, the rows to look at
StartUrlRun ==
    /\ url_main.pc \in { "idle", "done", "interrupted" }
    /\ url_main.runs < MaxUrlRuns
    /\ LET names == LoadProcessedNames(url_output)
       IN  url_main' = [url_main EXCEPT
                           !.pc = "loop",
                           !.processed_names = names,
                           !.todo = RowsOfRun(url_main.script, url_main.all_rows, names),
                           !.url = "",
                           !.checked = {},
                           !.runs = @ + 1]
    /\ UNCHANGED url_output
    /\ UrlFetchUntouched

\* the next row: skipped when its name is in processed_names (hospitals),
\* written at once when its name is empty, searched for otherwise
TakeRow ==
    /\ url_main.pc = "loop"
    /\ url_main.todo # << >>
    /\ LET name == url_main.all_rows[Head(url_main.todo)]
           company_name == StripName(name)
       IN  IF url_main.script = "hospitals" /\ company_name \in url_main.processed_names
           THEN /\ url_main' = [url_main EXCEPT !.todo = Tail(@)]
                /\ UNCHANGED url_output
           ELSE IF company_name = ""
           THEN /\ url_output' = Append(url_output, OutputRow(name, "", NoKeywords))
                /\ url_main' = [url_main EXCEPT
                                    !.todo = Tail(@),
                                    !.processed_names =
                                        IF url_main.script = "hospitals"
                                        THEN @ \cup { company_name } ELSE @]
           ELSE /\ url_main' = [url_main EXCEPT !.pc = "search"]
                /\ UNCHANGED url_output
    /\ UrlFetchUntouched

\* url = fetch_company_url(company_name, city)
SearchUrl ==
    /\ url_main.pc = "search"
    /\ \E url \in UrlSamples :
          url_main' = [url_main EXCEPT !.url = url, !.pc = "found"]
    /\ UNCHANGED url_output
    /\ UrlFetchUntouched

\* the banned test, check_zuweisung for a URL that is kept, the row written
WriteUrlRow ==
    /\ url_main.pc = "found"
    /\ LET name == url_main.all_rows[Head(url_main.todo)]
           url == url_main.url
           after == [url_main EXCEPT
                        !.pc = "loop",
                        !.todo = Tail(@),
                        !.processed_names =
                            IF url_main.script = "hospitals"
                            THEN @ \cup { StripName(name) } ELSE @]
       IN  IF url # "" /\ IsBannedUrl(url)
           THEN /\ url_output' = Append(url_output, OutputRow(name, "", NoKeywords))
                /\ url_main' = after
           ELSE IF url # ""
           THEN \E result \in ZuweisungResults :
                  /\ url_output' = Append(url_output, OutputRow(name, url, result))
                  /\ url_main' = [after EXCEPT !.checked = @ \cup { url }]
           ELSE /\ url_output' = Append(url_output, OutputRow(name, "", NoKeywords))
                /\ url_main' = after
    /\ UrlFetchUntouched

\* every row has had its turn: the final summary
EndUrlRun ==
    /\ url_main.pc = "loop"
    /\ url_main.todo = << >>
    /\ url_main' = [url_main EXCEPT !.pc = "done"]
    /\ UNCHANGED url_output
    /\ UrlFetchUntouched

\* Ctrl+C: KeyboardInterrupt (hospitals), stop_event (medicalCenters); the
\* row in work is not written
InterruptUrlRun ==
    /\ url_main.pc \in { "loop", "search", "found" }
    /\ url_main' = [url_main EXCEPT !.pc = "interrupted"]
    /\ UNCHANGED url_output
    /\ UrlFetchUntouched

NextUrlFetch ==
    \/ StartUrlRun
    \/ TakeRow
    \/ SearchUrl
    \/ WriteUrlRow
    \/ EndUrlRun
    \/ InterruptUrlRun

SpecUrlFetch == InitUrlFetch /\ [][NextUrlFetch]_vars

---------------------------------------------------------------------------
(* medicalCenters/urlFetch.py: fetch_company_url runs in several threads   *)
(* of the pool at once; each failed attempt does rate_limit_errors += 1,   *)
(* which reads the global and then writes it.                              *)

MaxSearchers == 2

\* max_retries of fetch_company_url
SearchMaxRetries == 3

Searchers == 1..MaxSearchers

InitRate ==
    /\ variant \in Variants
    /\ CrawlIdle
    /\ FetchIdle
    /\ DiscoveryIdle
    /\ AddressIdle
    /\ LogIdle
    /\ StdIdle
    /\ EnrichIdle
    /\ UrlFetchIdle
    /\ GroupIdle
    /\ DocsIdle
    /\ rate_limit_errors = 0
    /\ searchers = [t \in Searchers |-> [pc |-> "request", attempt |-> 0, loaded |-> 0]]
    /\ failed_attempts = 0

RateUntouched ==
    UNCHANGED << variant, crawl_vars, fetch_vars, discovery_vars, address_vars,
                 log_vars, std_vars, enrich_vars, urlfetch_vars, group_vars,
                 docs_vars >>

\* requests.get: an answer is returned, or RequestException is raised
SearchRequest(t) ==
    /\ searchers[t].pc = "request"
    /\ \E ok \in BOOLEAN :
        IF ok
        THEN /\ searchers' = [searchers EXCEPT ![t].pc = "returned"]
             /\ UNCHANGED failed_attempts
        ELSE /\ searchers' = [searchers EXCEPT ![t].pc = "load"]
             /\ failed_attempts' = failed_attempts + 1
    /\ UNCHANGED rate_limit_errors
    /\ RateUntouched

\* rate_limit_errors += 1, first half: the global is read
LoadCounter(t) ==
    /\ searchers[t].pc = "load"
    /\ searchers' = [searchers EXCEPT ![t].loaded = rate_limit_errors, ![t].pc = "store"]
    /\ UNCHANGED << rate_limit_errors, failed_attempts >>
    /\ RateUntouched

\* rate_limit_errors += 1, second half: the sum is written; then the wait
\* and attempt += 1, and the loop ends after max_retries attempts
StoreCounter(t) ==
    /\ searchers[t].pc = "store"
    /\ rate_limit_errors' = searchers[t].loaded + 1
    /\ searchers' = [searchers EXCEPT
                         ![t].attempt = @ + 1,
                         ![t].pc = IF searchers[t].attempt + 1 < SearchMaxRetries
                                   THEN "request" ELSE "returned"]
    /\ UNCHANGED failed_attempts
    /\ RateUntouched

NextRate ==
    \/ \E t \in DOMAIN searchers : SearchRequest(t)
    \/ \E t \in DOMAIN searchers : LoadCounter(t)
    \/ \E t \in DOMAIN searchers : StoreCounter(t)

SpecRate == InitRate /\ [][NextRate]_vars

---------------------------------------------------------------------------
(* groupclinics/groupy.py: main() walks the cantons and their pages, saves *)
(* its position in scraper_state.json and appends each page's listings to  *)
(* group_practices_progress.csv. The process can be killed at any point.   *)

NumGroupCantons == 2
MaxGroupPages == 2
MaxGroupRuns == 3
MaxGroupKills == 2

\* canton_links, by position; every canton has max_page = MaxGroupPages
GroupCantons == 1..NumGroupCantons

\* 'last_canton': "COMPLETED", a name no canton has
CompletedMark == -1

\* the listings of a page of a canton: one directory-item each
GroupListings(c, p) == << << c, p >> >>

InitGroup ==
    /\ variant \in Variants
    /\ CrawlIdle
    /\ FetchIdle
    /\ DiscoveryIdle
    /\ AddressIdle
    /\ LogIdle
    /\ StdIdle
    /\ EnrichIdle
    /\ UrlFetchIdle
    /\ RateIdle
    /\ DocsIdle
    /\ GroupIdle

GroupUntouched ==
    UNCHANGED << variant, crawl_vars, fetch_vars, discovery_vars, address_vars,
                 log_vars, std_vars, enrich_vars, urlfetch_vars, rate_vars,
                 docs_vars >>

\* main() up to the canton loop: the state file and, with it, the progress
\* file are read; a failed overview fetch ends the run
GroupStart ==
    /\ grp_main.pc = "idle"
    /\ grp_main.runs < MaxGroupRuns
    /\ \E ok \in BOOLEAN :
        IF ok
        THEN /\ grp_main' = [grp_main EXCEPT
                    !.pc = "canton",
                    !.all_practices = IF grp_disk.state_exists THEN grp_disk.progress ELSE << >>,
                    !.resume_canton = IF grp_disk.state_exists THEN grp_disk.last_canton ELSE NoCanton,
                    !.resume_page = IF grp_disk.state_exists THEN grp_disk.last_page ELSE 0,
                    !.resume_mode = (grp_disk.state_exists /\ grp_disk.last_canton # NoCanton),
                    !.canton = 1,
                    !.page_num = 0]
             /\ UNCHANGED grp_disk
        ELSE /\ grp_main' = [GroupMainIdle EXCEPT !.runs = grp_main.runs + 1,
                                                  !.kills = grp_main.kills]
             /\ grp_disk' = [grp_disk EXCEPT !.fetch_failed = TRUE]
    /\ GroupUntouched

\* one turn of `for canton in canton_links` up to the page loop
GroupNextCanton ==
    /\ grp_main.pc = "canton"
    /\ grp_main.canton \in GroupCantons
    /\ IF grp_main.resume_mode /\ grp_main.canton # grp_main.resume_canton
       THEN /\ grp_main' = [grp_main EXCEPT !.canton = @ + 1]
            /\ UNCHANGED grp_disk
       ELSE \E ok \in BOOLEAN :
            /\ grp_disk' = [grp_disk EXCEPT !.state_exists = TRUE,
                                            !.last_canton = grp_main.canton,
                                            !.last_page = 0,
                                            !.fetch_failed = @ \/ ~ok]
            /\ grp_main' = IF ok
                           THEN [grp_main EXCEPT !.resume_mode = FALSE,
                                                 !.pc = "page", !.page_num = 1]
                           ELSE [grp_main EXCEPT !.resume_mode = FALSE,
                                                 !.canton = @ + 1]
    /\ GroupUntouched

\* one turn of `for page_num in range(1, max_page + 1)` up to the page's
\* html; page 1 is the canton page already fetched
GroupNextPage ==
    /\ grp_main.pc = "page"
    /\ IF grp_main.page_num > MaxGroupPages
       THEN /\ grp_main' = [grp_main EXCEPT !.pc = "canton", !.canton = @ + 1]
            /\ UNCHANGED grp_disk
       ELSE IF grp_main.resume_mode /\ grp_main.page_num <= grp_main.resume_page
       THEN /\ grp_main' = [grp_main EXCEPT !.page_num = @ + 1]
            /\ UNCHANGED grp_disk
       ELSE \E ok \in (IF grp_main.page_num = 1 THEN {TRUE} ELSE BOOLEAN) :
            /\ grp_disk' = [grp_disk EXCEPT !.last_canton = grp_main.canton,
                                            !.last_page = grp_main.page_num,
                                            !.fetch_failed = @ \/ ~ok]
            /\ grp_main' = IF ok
                           THEN [grp_main EXCEPT !.pc = "process"]
                           ELSE [grp_main EXCEPT !.page_num = @ + 1]
    /\ GroupUntouched

\* the listings of the page are built, added to all_practices and appended
\* to the progress file by save_progress
GroupProcessPage ==
    /\ grp_main.pc = "process"
    /\ LET practices == GroupListings(grp_main.canton, grp_main.page_num)
       IN /\ grp_main' = [grp_main EXCEPT !.all_practices = @ \o practices,
                                          !.page_num = @ + 1,
                                          !.pc = "page"]
          /\ grp_disk' = [grp_disk EXCEPT !.progress = @ \o practices]
    /\ GroupUntouched

\* after the canton loop: COMPLETED is written when a state file exists,
\* all_practices is saved when it is not empty
GroupComplete ==
    /\ grp_main.pc = "canton"
    /\ grp_main.canton \notin GroupCantons
    /\ grp_disk' = [grp_disk EXCEPT
            !.last_canton = IF grp_disk.state_exists THEN CompletedMark ELSE @,
            !.last_page = IF grp_disk.state_exists THEN 0 ELSE @,
            !.final = IF grp_main.all_practices # << >> THEN grp_main.all_practices ELSE @]
    /\ grp_main' = [GroupMainIdle EXCEPT !.runs = grp_main.runs + 1,
                                         !.kills = grp_main.kills]
    /\ GroupUntouched

\* the process is interrupted: main() catches nothing, its variables are lost
GroupKill ==
    /\ grp_main.pc # "idle"
    /\ grp_main.kills < MaxGroupKills
    /\ grp_main' = [GroupMainIdle EXCEPT !.runs = grp_main.runs + 1,
                                         !.kills = grp_main.kills + 1]
    /\ UNCHANGED grp_disk
    /\ GroupUntouched

NextGroup ==
    \/ GroupStart
    \/ GroupNextCanton
    \/ GroupNextPage
    \/ GroupProcessPage
    \/ GroupComplete
    \/ GroupKill

SpecGroup == InitGroup /\ [][NextGroup]_vars

---------------------------------------------------------------------------
(* docs/onedoc_scraper.py: main() scrapes the pages start..end, and every  *)
(* fifth page and on the last page writes a progress file, the combined    *)
(* file and then the state file. Every run is started with --resume; the   *)
(* process can be killed at any point.                                     *)

EndPage == 6
MaxDocRuns == 3
MaxDocKills == 2

\* if page % 5 == 0
SaveEvery == 5

\* --keep, default 3
KeepLatest == 3

\* the records scrape_page returns for a page: one directory-item
DoctorsOf(page) == << page >>

\* save progress when page % 5 == 0 or page == end_page
IsCheckpoint(page) == page % SaveEvery = 0 \/ page = EndPage

\* clean_old_progress_files: of the names onedoc_progress_to_page<n>.csv
\* (every fifth page below current_page, and the files that exist) all but
\* the keep_latest highest are deleted
CleanOldProgressFiles(files, current_page) ==
    LET names == files \cup { n \in 1..(current_page - 1) : n % SaveEvery = 0 }
        kept == { n \in names : Cardinality({ m \in names : m > n }) < KeepLatest }
    IN  IF Cardinality(names) > KeepLatest THEN files \cap kept ELSE files

InitDocs ==
    /\ variant \in Variants
    /\ CrawlIdle
    /\ FetchIdle
    /\ DiscoveryIdle
    /\ AddressIdle
    /\ LogIdle
    /\ StdIdle
    /\ EnrichIdle
    /\ UrlFetchIdle
    /\ RateIdle
    /\ GroupIdle
    /\ DocsIdle

DocsUntouched ==
    UNCHANGED << variant, crawl_vars, fetch_vars, discovery_vars, address_vars,
                 log_vars, std_vars, enrich_vars, urlfetch_vars, rate_vars,
                 group_vars >>

\* main() up to the page loop with --resume: next_page and the combined
\* file are read when the state file exists
DocStart ==
    /\ doc_main.pc = "idle"
    /\ doc_main.runs < MaxDocRuns
    /\ doc_main' = [doc_main EXCEPT
            !.pc = "scrape",
            !.page = IF doc_disk.state_exists THEN doc_disk.next_page ELSE 1,
            !.all_doctors = IF doc_disk.state_exists THEN doc_disk.combined ELSE << >>]
    /\ UNCHANGED doc_disk
    /\ DocsUntouched

\* one turn of the page loop up to the saving: scrape_page returns the
\* records of the page, or nothing when the fetch failed
DocScrape ==
    /\ doc_main.pc = "scrape"
    /\ doc_main.page <= EndPage
    /\ \E ok \in BOOLEAN :
        IF ok
        THEN /\ doc_main' = [doc_main EXCEPT
                    !.all_doctors = @ \o DoctorsOf(doc_main.page),
                    !.pc = IF IsCheckpoint(doc_main.page) THEN "save_data" ELSE "scrape",
                    !.page = IF IsCheckpoint(doc_main.page) THEN @ ELSE @ + 1]
             /\ UNCHANGED doc_disk
        ELSE /\ doc_main' = [doc_main EXCEPT !.page = @ + 1]
             /\ doc_disk' = [doc_disk EXCEPT !.fetch_failed = TRUE]
    /\ DocsUntouched

\* save_to_csv(all_doctors, progress_file); save_to_csv(all_doctors, combined_file)
DocSaveData ==
    /\ doc_main.pc = "save_data"
    /\ doc_disk' = [doc_disk EXCEPT !.progress_files = @ \cup { doc_main.page },
                                    !.combined = doc_main.all_doctors]
    /\ doc_main' = [doc_main EXCEPT !.pc = "save_state"]
    /\ DocsUntouched

\* save_state({'next_page': page + 1, ...}); clean_old_progress_files
DocSaveState ==
    /\ doc_main.pc = "save_state"
    /\ doc_disk' = [doc_disk EXCEPT
            !.state_exists = TRUE,
            !.next_page = doc_main.page + 1,
            !.progress_files = CleanOldProgressFiles(@, doc_main.page)]
    /\ doc_main' = [doc_main EXCEPT !.pc = "scrape", !.page = @ + 1]
    /\ DocsUntouched

\* after the loop: save_to_csv(all_doctors, "onedoc_complete.csv"), which
\* writes nothing when all_doctors is empty
DocFinish ==
    /\ doc_main.pc = "scrape"
    /\ doc_main.page > EndPage
    /\ doc_disk' = [doc_disk EXCEPT
            !.complete = IF doc_main.all_doctors # << >> THEN doc_main.all_doctors ELSE @]
    /\ doc_main' = [DocMainIdle EXCEPT !.pc = "completed",
                                       !.runs = doc_main.runs + 1,
                                       !.kills = doc_main.kills]
    /\ DocsUntouched

\* the process is interrupted: main() catches nothing, its variables are lost
DocKill ==
    /\ doc_main.pc \notin { "idle", "completed" }
    /\ doc_main.kills < MaxDocKills
    /\ doc_main' = [DocMainIdle EXCEPT !.runs = doc_main.runs + 1,
                                       !.kills = doc_main.kills + 1]
    /\ UNCHANGED doc_disk
    /\ DocsUntouched

NextDocs ==
    \/ DocStart
    \/ DocScrape
    \/ DocSaveData
    \/ DocSaveState
    \/ DocFinish
    \/ DocKill

SpecDocs == InitDocs /\ [][NextDocs]_vars

---------------------------------------------------------------------------
(* Properties *)

\* the data rows of the progress file, as records
ProgressRows == DictReader(progress_file)

\* the items that have a row in the progress file
SavedItems == { row.name : row \in Range(ProgressRows) }

\* the (canton, page) records of the processed-pages log
MarkedPages == Range(processed_file)

\* the data rows of the final output file, as records
OutputRows == DictReader(output_file)

\* C1: after any sequence of runs, each of which may be killed at any point
\* and restarted, no two rows of the progress file carry the same item URL.
C1_NoTwoRowsSameUrl ==
    \A i, j \in 1..Len(ProgressRows) :
        i # j => RecordUrl(variant, ProgressRows[i]) # RecordUrl(variant, ProgressRows[j])

\* C2: when a run was killed while a page was being handled and the crawl
\* was re-run until a run completed (no fetch ever failed), the final output
\* written by the completing run holds every item of the source exactly
\* once.  Stated for the items that carry a detail link, which the claim
\* covers whatever is decided about the items without one.
C2_FinalOutputEveryItemOnce ==
    (pc = "completed" /\ killed_mid_page /\ fails = 0) =>
        \A item \in { it \in AllItems : HasLink(it) } :
            Cardinality({ i \in 1..Len(OutputRows) : OutputRows[i].name = item }) = 1

\* C3: once a run has completed without a failed fetch, a later run against
\* the unchanged source appends no row to the progress file and adds no row
\* to the final output.
C3_RerunAddsNothing ==
    [][clean_done => (progress_file' = progress_file /\ output_file' = output_file)]_vars

\* a later run has walked every canton after a run completed cleanly
C3_Witness ==
    /\ clean_done
    /\ pc = "canton"
    /\ canton > NumCantons
    /\ progress_file # << >>
    /\ output_file # << >>

\* the records of the current page are the last lines of the progress file
BatchIsSaved ==
    LET n == Len(extracted_items)
        m == Len(progress_file)
    IN  n > 0 =>
            /\ m >= n + 1
            /\ \A k \in 1..n :
                 progress_file[m - n + k] = WriteRow(Fieldnames(variant), extracted_items[k])

\* C4: a (canton, page) record is appended to the processed-pages log only
\* after the records of all new items extracted from that page have been
\* appended to the progress file; a page whose items are being extracted or
\* are still unsaved is never in the log.
C4_MarkedOnlyAfterSaved ==
    /\ [](pc \in {"extract", "save", "mark"} => << canton, page_num >> \notin MarkedPages)
    /\ [][processed_file' # processed_file =>
            /\ processed_file' = Append(processed_file, << canton, page_num >>)
            /\ BatchIsSaved]_vars

\* a page with new items has just been marked
C4_Witness ==
    /\ pc = "pages"
    /\ extracted_items # << >>
    /\ processed_file # << >>
    /\ processed_file[Len(processed_file)] = << canton, page_num - 1 >>
    /\ BatchIsSaved

\* C5: every listing item of every page in the processed-pages log, with or
\* without a detail link, has a row in the progress file.
C5_MarkedPageItemsSaved ==
    \A pg \in MarkedPages :
        \A item \in Range(PageItems(pg[1], pg[2])) : item \in SavedItems

\* C6 (as stated): on a resumed run no fetch is issued for the URL of a
\* (canton, page) pair that is in the processed-pages log, page 1 included.
C6_NoFetchOfProcessedPage ==
    \A f \in fetched : << f.c, f.p >> \notin processed_pages

\* C6 (amended): on a resumed run no fetch for extraction is issued for a
\* pair that is in the processed-pages log and no such page is extracted
\* again; the only fetches of such a page are the re-fetch of page 1 that
\* recomputes max_page and the probes of get_max_page_number.
C6_NoExtractionOfProcessedPage ==
    /\ \A f \in fetched :
          /\ << f.c, f.p >> \in processed_pages => f.kind \in {"resume", "probe"}
          /\ f.kind = "resume" => f.p = 1
    /\ pc \in {"extract", "save", "mark"} => << canton, page_num >> \notin processed_pages

\* a resumed canton has been walked: page 1 re-fetched, every page skipped
C6_Witness ==
    /\ pc = "pages"
    /\ page_num > max_page
    /\ max_page >= 2
    /\ \A p \in 1..max_page : << canton, p >> \in processed_pages
    /\ \E f \in fetched : f.kind = "resume" /\ f.c = canton /\ f.ok

\* C7: when the fetch of a listing page fails, nothing is appended to the
\* progress file, the page is not added to the processed-pages log and the
\* run goes on with the next page; when the fetch of a canton's first page
\* fails, the run goes on with the next canton.  The run is never aborted.
C7_FailedFetchSkipsAndContinues ==
    [][\A f \in fetched' \ fetched :
          (f.kind \in {"page", "resume"} /\ ~f.ok) =>
              /\ progress_file' = progress_file
              /\ processed_file' = processed_file
              /\ output_file' = output_file
              /\ pc' \in Running
              /\ IF f.kind = "resume"
                 THEN pc' = "pages" /\ canton' = canton /\ page_num' > max_page'
                 ELSE IF f.p = 1
                 THEN pc' = "canton" /\ canton' = canton + 1
                 ELSE pc' = "pages" /\ canton' = canton /\ page_num' = page_num + 1]_vars

\* the fetch of a later page has failed and the run is at the next page
C7_Witness ==
    /\ pc = "pages"
    /\ \E f \in fetched :
          f.kind = "page" /\ ~f.ok /\ f.c = canton /\ f.p >= 2 /\ page_num = f.p + 1

\* C8: in every run in which a canton's first page can be fetched, each page
\* 1..max_page of the canton that is not in the processed-pages log is
\* fetched, whatever scraped_urls holds; a page whose fetch failed in one
\* run is fetched again in the next.
C8_UnprocessedPagesFetched ==
    [][(pc = "pages" /\ pc' = "canton") =>
          \A p \in 1..max_page :
              << canton, p >> \notin processed_pages =>
                  \E f \in fetched : f.kind = "page" /\ f.c = canton /\ f.p = p]_vars

\* the second run has left canton 1 after fetching its page 2 again: the
\* one failed fetch so far was that of page 2 in the first run
C8_Witness ==
    /\ runs = 2 /\ kills = 0 /\ fails = 1 /\ ~run_failed
    /\ pc = "canton" /\ canton = 2
    /\ << 1, 1 >> \in processed_pages
    /\ << 1, 2 >> \notin processed_pages
    /\ \E f \in fetched : f.kind = "page" /\ f.c = 1 /\ f.p = 2 /\ f.ok

\* C9: no detail page is fetched, and no record is produced, for a listing
\* item whose URL is already in scraped_urls.
C9_NoDetailFetchForScrapedUrl ==
    [][/\ \A item \in detail_fetched' \ detail_fetched :
             ItemUrl(variant, item) \notin scraped_urls
       /\ IF variant = "base"
          THEN (pc = "extract" /\ Len(extracted_items') > Len(extracted_items)) =>
                  RecordUrl(variant, extracted_items'[Len(extracted_items')])
                      \notin scraped_urls
          ELSE (pc = "extract" /\ pc' = "save") =>
                  \A k \in 1..Len(extracted_items') :
                      RecordUrl(variant, extracted_items'[k]) \notin scraped_urls]_vars

\* C10: at every point of a run every URL in scraped_urls has a row in the
\* progress file.
C10_ScrapedUrlsHaveRows ==
    \A u \in scraped_urls :
        \E row \in Range(ProgressRows) : RecordUrl(variant, row) = u

\* the connectivity gate at the start of fetch_page was passed
GatePassed == checks # << >> /\ checks[Len(checks)]

\* the call has returned, got past the gate and no session.get succeeded
AlwaysFailed == fetch_pc = "returned" /\ GatePassed /\ ~http_ok

\* C11: with the connectivity check passing, a fetch whose every HTTP
\* attempt fails returns None after exactly max_retries attempts; at no
\* point have more than max_retries attempts been made.
C11_ExactlyMaxRetriesAttempts ==
    /\ attempts_made <= max_retries
    /\ AlwaysFailed => (fetch_result = "None" /\ attempts_made = max_retries)

\* a fetch with the largest max_retries has failed on every attempt
C11_Witness ==
    /\ AlwaysFailed
    /\ max_retries = MaxRetries
    /\ attempts_made = MaxRetries
    /\ fetch_result = "None"

\* C12: failed attempt i with i < max_retries - 1 is followed by a wait of
\* retry_delay * 2^i, nothing else adds to the backoff and no backoff
\* follows the last attempt; an always-failing fetch of N attempts has
\* waited retry_delay * (2^(N-1) - 1) in backoff when it returns.
C12_ExponentialBackoff ==
    /\ [](AlwaysFailed =>
            backoff_total = retry_delay * (2^(max_retries - 1) - 1))
    /\ [][/\ (attempts_made' = attempts_made + 1 /\ ~http_ok'
                 /\ attempt < max_retries - 1) => fetch_pc' = "backoff"
          /\ fetch_pc = "backoff" =>
                 backoff_total' = backoff_total + retry_delay * 2^attempt
          /\ backoff_total' # backoff_total =>
                 (fetch_pc = "backoff" /\ attempt < max_retries - 1)]_vars

\* an always-failing fetch with the largest max_retries and retry_delay
C12_Witness ==
    /\ AlwaysFailed
    /\ max_retries = MaxRetries
    /\ retry_delay = MaxRetryDelay
    /\ backoff_total = MaxRetryDelay * (2^(MaxRetries - 1) - 1)
    /\ backoff_total > 0

\* C13: when the connectivity check at the start of fetch fails, fetch
\* waits the fixed delay once and checks exactly once more; it makes HTTP
\* attempts when the second check passes and returns without any HTTP
\* attempt only when both checks failed.
C13_RecheckOnceAtStart ==
    fetch_pc = "returned" =>
        /\ ~checks[1] => (Len(checks) = 2 /\ fixed_waits = 1)
        /\ attempts_made = 0 <=> checks = << FALSE, FALSE >>

\* C14: after a failed attempt that is not the last, connectivity is checked
\* before the next attempt; when it is down fetch polls at most MaxPolls
\* times and then goes on with the next attempt whether or not connectivity
\* came back; the wait makes no attempt and skips none.
C14_BoundedConnectivityWait ==
    /\ [](polls <= MaxPolls)
    /\ [][/\ (attempts_made' = attempts_made + 1 /\ attempts_made >= 1) => rechecked
          /\ fetch_pc \in {"connectivity", "poll"} =>
                 /\ attempts_made' = attempts_made
                 /\ fetch_pc' \in {"poll", "attempt"}
                 /\ fetch_pc' = "attempt" => attempt' = attempt + 1
          /\ (fetch_pc = "poll" /\ polls = MaxPolls - 1) => fetch_pc' = "attempt"]_vars

\* C15: for a first page whose pagination shows numeric links with maximum
\* V, get_max_page_number of base_scraper.py probes page V+1 and nothing
\* else, returns V+1 exactly when that fetch succeeds and the page holds at
\* least one item, and returns V otherwise.
C15_SingleStepLookahead ==
    (variant = "base" /\ dpc = "returned" /\ first_links >= 1) =>
        \E ok \in BOOLEAN :
            /\ probe_log = {[p |-> first_links + 1, ok |-> ok]}
            /\ returned_max = IF ok /\ first_links + 1 <= num_pages
                              THEN first_links + 1
                              ELSE first_links

\* the probe of page V+1 succeeded, found items, and V+1 was returned
C15_Witness ==
    /\ variant = "base" /\ dpc = "returned"
    /\ first_links = 3 /\ num_pages >= 4
    /\ probe_log = {[p |-> 4, ok |-> TRUE]}
    /\ returned_max = 4

\* C16: the page count returned by max-page discovery is never smaller than
\* the number of the last page that holds an item, whatever page links the
\* first page renders (both variants).  Stated for the calls in which the
\* first page links to existing pages only and no probe fetch fails.
C16_NeverUndercounts ==
    (/\ dpc = "returned"
     /\ first_links \in 1..num_pages
     /\ \A f \in probe_log : f.ok) => returned_max >= num_pages

C18_NoPaginationMeansOnePage ==
    (dpc \notin {"idle", "start"} /\ first_links \in {NoPagination, NoNumericLinks}) =>
        /\ dpc = "returned"
        /\ returned_max = 1
        /\ probe_log = {}

\* both variants have returned 1 for a first page without numeric links
C18_Witness ==
    /\ dpc = "returned"
    /\ first_links = NoNumericLinks
    /\ num_pages > 1
    /\ returned_max = 1 /\ probe_log = {}

\* the text before the first ", " of an address that holds one
BeforeFirstSeparator(str) == SubSeq(str, 1, FirstSeparator(str) - 1)

\* the whole text after the first ", " of an address that holds one
Remainder(str) == SubSeq(str, FirstSeparator(str) + 2, Len(str))

\* str has the form <4 digits><whitespace><rest>
HasPostalForm(str) ==
    /\ Len(str) >= 5
    /\ \A k \in 1..4 : IsDigit(str[k])
    /\ IsSpace(str[5])

\* C19: for an address without ", " parse_address returns street equal to
\* the whole address, postal_code empty and city empty.
C19_NoSeparatorWholeAddressIsStreet ==
    (apc = "done" /\ ~HasSeparator(address)) =>
        parsed = [street |-> address, postal_code |-> << >>, city |-> << >>]

\* C20: for an address with ", ", street is the text before the first ", ";
\* the whole remainder after it gives postal_code = its 4 digits and city =
\* the rest when it has the form <4 digits><whitespace><rest>, and city =
\* the whole remainder with an empty postal_code otherwise (surrounding
\* whitespace aside).
C20_RemainderIsPostalAndCity ==
    (apc = "done" /\ HasSeparator(address)) =>
        LET rest == Strip(Remainder(address))
        IN  /\ parsed.street = Strip(BeforeFirstSeparator(address))
            /\ IF HasPostalForm(rest)
               THEN /\ parsed.postal_code = SubSeq(rest, 1, 4)
                    /\ parsed.city = Strip(SubSeq(rest, 5, Len(rest)))
               ELSE /\ parsed.postal_code = << >>
                    /\ parsed.city = rest

\* the rows of the progress file written for an item whose detail page
\* could not be fetched: the item has a link and the row has no phone
FailedEnrichmentRows ==
    { row \in Range(ProgressRows) : HasLink(row.name) /\ row.phone = "" }

\* C21 (as stated): when the detail-page fetch of an item fails, the item is
\* appended to the progress file with every enrichment field empty: phone,
\* specialty, email and website.
C21_FailedEnrichmentRowAllEmpty ==
    \A row \in FailedEnrichmentRows :
        row.email = "" /\ row.specialty = "" /\ row.website = EmptyUrl

\* C21 (amended): when the detail-page fetch of an item fails, enrichment
\* returns the all-empty defaults and the item loop goes on; the record of
\* the item has phone, email and specialty empty and website equal to the
\* item's own URL; it is in the progress file when its page is marked, and
\* the page is marked like any other.
C21_FailedEnrichmentStillSaved ==
    /\ [](\A k \in 1..Len(extracted_items) :
              (HasLink(extracted_items[k].name) /\ extracted_items[k].phone = "") =>
                  /\ extracted_items[k].email = ""
                  /\ extracted_items[k].specialty = ""
                  /\ extracted_items[k].website = extracted_items[k].source_url)
    /\ [](pc = "mark" => BatchIsSaved)
    /\ [][/\ (pc = "extract" /\ fails' > fails) =>
                 LET item == PageItems(canton, page_num)[index]
                 IN  /\ pc' = "extract" /\ index' = index + 1
                     /\ extracted_items' = Append(extracted_items,
                            [name |-> item, phone |-> "", email |-> "",
                             website |-> item, specialty |-> "",
                             source_url |-> item])
          /\ pc = "mark" =>
                 \/ pc' = "killed"
                 \/ processed_file' = Append(processed_file, << canton, page_num >>)]_vars

\* a page is in the log whose progress rows include one written after a
\* failed detail fetch
C21_Witness ==
    \E row \in FailedEnrichmentRows :
        /\ << row.name[1], row.name[2] >> \in MarkedPages
        /\ row.website = row.name

\* the rows of the log that _load_processed_pages can parse
ParseableRows ==
    { j \in 1..Len(processed_file) :
        Len(processed_file[j]) >= 2 /\ IsIntegerText(processed_file[j][2]) }

\* C22: loading the processed-pages log never aborts the run: a missing file
\* gives the empty state, every row that cannot be parsed (fewer than two
\* columns, or a page field that is not an integer) is skipped and every
\* parseable row is loaded.
C22_LoadSkipsUnparseableRows ==
    log_pc \notin {"idle", "open"} =>
        /\ log_pc = "loaded"
        /\ processed_pages =
               { << processed_file[j][1], processed_file[j][2] >> : j \in ParseableRows }

\* the log without the repeats of its rows
RECURSIVE Once(_)
Once(file) ==
    IF file = << >> THEN << >>
    ELSE LET front == SubSeq(file, 1, Len(file) - 1)
             last == file[Len(file)]
         IN  IF last \in Range(front) THEN Once(front)
             ELSE Append(Once(front), last)

\* C23: marking a pair any number of times is harmless: whenever the log
\* loads, the loaded state equals the state loaded from the log with every
\* row kept once, and a pair is in the loaded state exactly when it was
\* marked at least once.
C23_RemarkingIsHarmless ==
    log_pc = "loaded" =>
        /\ processed_pages = LoadProcessedPages(Once(processed_file))
        /\ processed_pages = marked

\* a log in which a pair was marked twice and another once has been loaded
C23_Witness ==
    /\ log_pc = "loaded"
    /\ Range(processed_file) \subseteq marked
    /\ Len(processed_file) = 3
    /\ Cardinality(marked) = 2
    /\ processed_pages = marked

\* C24: after any sequence of save_progress calls over any number of runs,
\* calls with an empty batch and runs killed between calls included, the
\* progress file, if it exists, has exactly one header row and that row is
\* its first: every write keeps what is there, adds one line per record of
\* the batch, and one header line more only when the file did not exist.
C24_OneHeaderRowFirst ==
    /\ [](progress_file # << >> => progress_file[1] = Fieldnames(variant))
    /\ [][progress_file' # progress_file =>
            /\ pc = "save" /\ extracted_items # << >>
            /\ Len(progress_file') = Len(progress_file) + Len(extracted_items)
                   + (IF progress_file = << >> THEN 1 ELSE 0)
            /\ SubSeq(progress_file', 1, Len(progress_file)) = progress_file
            /\ \A k \in 1..Len(extracted_items) :
                   progress_file'[Len(progress_file') - Len(extracted_items) + k]
                       = WriteRow(Fieldnames(variant), extracted_items[k])]_vars

\* a later run, started after a kill, has called save_progress with an
\* empty batch on a progress file that holds rows of an earlier run
C24_Witness ==
    /\ runs >= 2 /\ kills >= 1
    /\ pc = "mark"
    /\ extracted_items = << >>
    /\ Len(progress_file) > 1
    /\ progress_file[1] = Fieldnames(variant)

\* C25: standardize_csv_output yields, for every record, all eleven keys, and
\* no value is None: a field the record lacks comes out as the empty string
C25_StandardizeAllKeysNeverNull ==
    std_pc = "done" =>
        \A i \in 1..Len(standardized) :
            /\ DOMAIN standardized[i] = StandardKeys
            /\ \A k \in StandardKeys : standardized[i][k] # PyNone
            /\ \A k \in InputKeys \ DOMAIN std_data[i] : standardized[i][k] = ""

\* C26: standardize_csv_output returns one record per input record, in the
\* order of the input, each with the tag passed in as its type
C26_OneRecordPerInputInOrder ==
    std_pc = "done" =>
        /\ Len(standardized) = Len(std_data)
        /\ \A i \in 1..Len(standardized) :
            /\ standardized[i].type = scraper_type
            /\ standardized[i].name = CleanText(RowGet(std_data[i], "name", ""))
            /\ standardized[i].phone = ExtractPhone(RowGet(std_data[i], "phone", ""))
            /\ standardized[i].scraped_at = RowGet(std_data[i], "scraped_at", "")

C26_Witness ==
    /\ std_pc = "done"
    /\ Len(std_data) = 2
    /\ Len(standardized) = 2
    /\ standardized[1].name = "Praxis A"
    /\ standardized[2].name = "Praxis B"
    /\ standardized[1].type = "hospital"

\* C27: the final output file changes only in the step that ends a run after
\* the last category (so at most once in a run), and what it then holds is
\* the header and the standardized form of each record of all_items, the
\* records this run accumulated, in order
C27_FinalOutputOnceAtEnd ==
    [][output_file' # output_file =>
          /\ pc = "canton" /\ canton > NumCantons
          /\ pc' = "completed" /\ runs' = runs
          /\ all_items # << >>
          /\ Len(output_file') = 1 + Len(all_items)
          /\ output_file'[1] = OutputFieldnames(variant)
          /\ \A i \in 1..Len(all_items) :
                 output_file'[i + 1]
                     = WriteRow(OutputFieldnames(variant), StandardizeItem(all_items[i]))]_vars

\* a second run has ended and written only its own records
C27_Witness ==
    /\ pc = "completed"
    /\ runs = 2
    /\ Len(output_file) >= 2
    /\ Len(output_file) < Len(progress_file)

\* the rows of csvfile written for row i
RowsWrittenFor(i) == { k \in 1..Len(csvfile) : csvfile[k].idx = i }

\* C28: the output file grows by one whole row at a time, no row is written
\* twice, and when worker_thread has returned every row whose enrichment
\* finished before stop_event was set has its row in the file
C28_RowsWholeAndWrittenOnce ==
    /\ [][csvfile' # csvfile =>
              /\ Len(csvfile') = Len(csvfile) + 1
              /\ (SubSeq(csvfile', 1, Len(csvfile)) = csvfile)]_vars
    /\ [](\A i \in DOMAIN future : Cardinality(RowsWrittenFor(i)) <= 1)
    /\ [](wt_pc = "returned" =>
              \A i \in DOMAIN future :
                  future[i] = "enriched" => Cardinality(RowsWrittenFor(i)) = 1)

\* C29: after a cancelled run, when worker_thread writes no more, the count
\* final_summary printed is the number of rows appended in the run
C29_SummaryCountsAppendedRows ==
    (/\ stop_event
     /\ summary # NotPrinted
     /\ wt_pc \in { "exit", "returned" })
        => summary = Len(csvfile)

\* once stop_event is set no thread of the pool starts to fetch a row
C30_NoNewUnitStarts ==
    [][stop_event =>
          \A i \in DOMAIN future :
              ~(future[i] = "pending" /\ future'[i] = "running")]_vars

\* once worker_thread has seen stop_event set it appends nothing
C30_NoRowAfterStopObserved ==
    [][(wt_pc \in { "exit", "returned" }) => (csvfile' = csvfile)]_vars

\* the file is closed by then, and every row in it is an enriched row
C30_ClosedAndRowsComplete ==
    /\ wt_pc \in { "exit", "returned" } => ~csv_open
    /\ \A k \in 1..Len(csvfile) : csvfile[k].result = "enriched"

RowsAppended ==
    Len(progress_file') - Len(progress_file) - (IF progress_file = << >> THEN 1 ELSE 0)

\* C32: all_items starts empty with the run and grows by exactly the batch
\* that is appended to the progress file in the same step, so that all along
\* the run, and when the final write takes it, all_items is the sequence of
\* the last rows of the progress file, in order and of the same count
C32_FinalListIsTheBatchesOfTheRun ==
    /\ [][runs' # runs => all_items' = << >>]_vars
    /\ [][(pc \in Running /\ pc' \in Running) =>
              /\ Len(all_items') >= Len(all_items)
              /\ SubSeq(all_items', 1, Len(all_items)) = all_items
              /\ IF progress_file' # progress_file
                 THEN Len(all_items') - Len(all_items) = RowsAppended
                 ELSE Len(all_items') = Len(all_items)]_vars
    /\ [](pc \in Running =>
              /\ Len(all_items) > 0 => Len(progress_file) >= Len(all_items) + 1
              /\ \A k \in 1..Len(all_items) :
                     progress_file[Len(progress_file) - Len(all_items) + k]
                         = WriteRow(Fieldnames(variant), all_items[k]))
    /\ [][output_file' # output_file =>
              Len(output_file') - 1 = Len(all_items)]_vars

\* a resumed run is about to hand over the records of two batches
C32_Witness ==
    /\ pc = "canton" /\ canton > NumCantons
    /\ runs >= 2
    /\ Len(all_items) >= 2
    /\ all_items[1].name[2] # all_items[Len(all_items)].name[2]
    /\ Len(progress_file) > Len(all_items) + 1

\* C33: when a fetched page yields no new item, save_progress appends
\* nothing and the page is added to the processed-pages log all the same;
\* a page that is in the log is never fetched for extraction again, nor
\* extracted, in this run or a later one
C33_EmptyPageMarkedAndNeverRefetched ==
    /\ [][(pc = "save" /\ extracted_items = << >>) =>
              /\ progress_file' = progress_file
              /\ pc' \in { "mark", "killed" }]_vars
    /\ [][pc = "mark" =>
              \/ pc' = "killed"
              \/ processed_file' = Append(processed_file, << canton, page_num >>)]_vars
    /\ [][\A f \in fetched' \ fetched :
              f.kind = "page" => << f.c, f.p >> \notin MarkedPages]_vars
    /\ [](pc \in { "extract", "save" } => << canton, page_num >> \notin MarkedPages)

\* a page fetched in this run gave no new item and is in the log
C33_Witness ==
    /\ pc = "pages"
    /\ extracted_items = << >>
    /\ << canton, page_num - 1 >> \in MarkedPages
    /\ Fetch("page", canton, page_num - 1, TRUE) \in fetched

\* C34: when the fetch of the overview page fails the run is over at once:
\* no other fetch is made, and the progress file, the processed-pages log
\* and the final output file stay as they were until another run starts
C34_OverviewFailureLeavesFilesAlone ==
    /\ [][(pc = "overview" /\ fails' > fails) =>
              /\ pc' = "aborted"
              /\ fetched' = {} /\ detail_fetched' = {}
              /\ progress_file' = progress_file
              /\ processed_file' = processed_file
              /\ output_file' = output_file]_vars
    /\ [][pc = "aborted" =>
              /\ runs' = runs + 1
              /\ progress_file' = progress_file
              /\ processed_file' = processed_file
              /\ output_file' = output_file]_vars

\* a run after others ended on the overview page, the files as they were
C34_Witness ==
    /\ pc = "aborted"
    /\ runs >= 2
    /\ progress_file # << >>
    /\ processed_file # << >>
    /\ fetched = {}

\* C31: when the URL found for a row is on a banned domain, the row is
\* written with official_website empty, Zuweisung 0 and no keywords, no
\* keyword check is fetched for the URL, and the run goes on with the next
\* row
C31_BannedUrlRowWrittenEmpty ==
    [][(url_main.pc = "found" /\ url_main'.pc # "interrupted"
            /\ \E banned \in banned_domains : banned \in Range(Netloc(url_main.url))) =>
          /\ Len(url_output') = Len(url_output) + 1
          /\ SubSeq(url_output', 1, Len(url_output)) = url_output
          /\ url_output'[Len(url_output')] =
                 [name |-> url_main.all_rows[Head(url_main.todo)],
                  official_website |-> "", Zuweisung |-> 0,
                  Triggered_Keywords |-> ""]
          /\ url_main'.checked = url_main.checked
          /\ url_main'.pc = "loop"
          /\ url_main'.todo = Tail(url_main.todo)]_vars

\* the row of a banned URL has just been written, another row is to come
C31_Witness ==
    /\ url_main.pc = "loop"
    /\ IsBannedUrl(url_main.url)
    /\ url_main.todo # << >>
    /\ url_main.checked = {}
    /\ Len(url_output) = 1
    /\ url_output[1].name = "A"
    /\ url_output[1].official_website = ""

\* the rows of the output file that carry the name
RowsNamed(name) == { k \in 1..Len(url_output) : url_output[k].name = name }

\* C37: the output file never has two rows with the same name, whatever
\* names the input file has, in both scripts
C37_OneRowPerName ==
    \A i \in 1..Len(url_main.all_rows) :
        Cardinality(RowsNamed(url_main.all_rows[i])) <= 1

\* the states of a future whose row was cut short by stop_event
ShortCircuited == { "unchanged", "late" }

\* C38: a row that process_one_row returned as it was because stop_event
\* was set, or that finished after stop_event was set, is never written to
\* the output file
C38_ShortCircuitedRowNeverWritten ==
    /\ \A i \in DOMAIN future :
           future[i] \in ShortCircuited => RowsWrittenFor(i) = {}
    /\ \A k \in 1..Len(csvfile) : csvfile[k].result \notin ShortCircuited

\* worker_thread has returned after a stop; a row was written before, one
\* was cut short at its start and one finished after the stop
C38_Witness ==
    /\ wt_pc = "returned"
    /\ stop_event
    /\ Len(csvfile) >= 1
    /\ \E i \in DOMAIN future : future[i] = "unchanged"
    /\ \E i \in DOMAIN future : future[i] = "late"

\* C39: when every search has returned, rate_limit_errors is the number of
\* search attempts that failed
C39_NoLostRateLimitError ==
    (\A t \in DOMAIN searchers : searchers[t].pc = "returned")
        => rate_limit_errors = failed_attempts

\* the rows of the progress file that hold the listing
ProgressRowsOf(listing) ==
    { k \in 1..Len(grp_disk.progress) : grp_disk.progress[k] = listing }

\* C35: once a run has written COMPLETED, and no fetch failed in any run,
\* the progress file holds every listing of every page of every canton
\* exactly once, however often the runs before were interrupted
C35_EveryListingOnceAfterResume ==
    (grp_disk.last_canton = CompletedMark /\ ~grp_disk.fetch_failed)
        => \A c \in GroupCantons : \A p \in 1..MaxGroupPages :
               Cardinality(ProgressRowsOf(<< c, p >>)) = 1

\* the rows of onedoc_complete.csv that hold the records of the page
CompleteRowsOf(page) ==
    { k \in 1..Len(doc_disk.complete) : doc_disk.complete[k] = page }

\* C36: when a run has completed, and no fetch failed in any run, the final
\* dataset holds the records of each page 1..EndPage exactly once, however
\* often the runs before were interrupted
C36_EveryPageOnceAfterResume ==
    (doc_main.pc = "completed" /\ ~doc_disk.fetch_failed)
        => \A page \in 1..EndPage : Cardinality(CompleteRowsOf(page)) = 1

====
